---- MODULE Spec2Model ----
(***************************************************************************)
(* MCP transport and session client: the request correlator, the session  *)
(* state and the SSE handshake of SseMcpClient (services/sseMcpClient.ts) *)
(* and of the older McpClient (services/mcpClient.ts), together with the  *)
(* part of App.tsx that drives them.                                      *)
(***************************************************************************)
EXTENDS Integers, Sequences, FiniteSets, TLC

\* ------------------------------------------------------------------ bounds
\* number of ids one client instance may issue in a behaviour
MaxRequests == 2
\* number of JSON-RPC messages one POST response body may carry
MaxBodyMsgs == 1

\* number of times App registers its handlers with one client instance
MaxHandlers == 1
\* number of sendRequest calls App makes on one client instance: the
\* initialize request of handleConnect and the list requests that follow it
MaxAppRequests == 3
\* number of handleConnect calls in a behaviour of App
MaxAppConnects == 2

\* number of sendRequest calls that pass the postUrl test, and number of
\* sendNotification POSTs in flight at a time, where calls made while the
\* client is not connected are followed
MaxSessRequests == 1
MaxNotes == 1

\* number of connect() calls on a StreamableHttpMcpClient, each of which makes
\* a transport, and number of POSTs its transports send
MaxTransports == 2
MaxPosts == 2

\* length of the text a readSseStream call reads, and of one chunk of it
MaxText == 6
MaxChunk == 2

\* ---------------------------------------------------------------- universe
NULL == "null"
BaseUrl == "http://host/sse"
GetFailures == {"Connection failed", "No response body", "Network error"}
CONNECT_ERROR == "Error"
CONNECT_ABORTED == "Connection aborted"
NoId == -1

Classes == {"SseMcpClient", "McpClient"}
ConnectionTypes == {"sse", "streamable_http"}
\* methods a caller passes to sendRequest: one the switch gives a validator
\* to, one it does not
Methods == {"initialize", "tools/call"}
\* the methods sendRequest's switch has a response schema for
ValidatedMethods == {"tools/list", "tools/call", "resources/list", "resources/read",
                     "prompts/list", "prompts/get"}
\* result payloads a server may send: one that a response schema accepts and
\* completes with its default fields (a tools/call result without content),
\* one that it refuses
Vals == {"Sparse", "Bad"}
Errs == {"E"}
EndpointUrls == {"http://host/rpc"}
SessionIds == {"s1"}
TIMEOUT_ERROR == "Request timed out"
HTTP_ERROR == "HTTP Error"
NOT_CONNECTED == "Not connected or POST endpoint not received yet."
ZOD_ERROR == "ZodError"

\* the sendRequest calls of a behaviour, and the ids they use
MaxCalls == IF MaxAppRequests > MaxRequests THEN MaxAppRequests ELSE MaxRequests
Ids == 0 .. (MaxCalls - 1)

\* inbound JSON-RPC messages: responses with result, responses with error,
\* server requests (a method and an id) and notifications (a method, no id)
InboundMessages ==
    [id : Ids, kind : {"result"}, val : Vals]
      \cup [id : Ids, kind : {"error"}, val : Errs]
      \cup [id : Ids \cup {NoId}, kind : {"method"}, val : {NULL}]

\* what a POST response body may hold: up to MaxBodyMsgs messages
RECURSIVE SeqsUpTo(_, _)
SeqsUpTo(S, n) ==
    IF n = 0 THEN {<<>>}
    ELSE LET shorter == SeqsUpTo(S, n - 1)
         IN shorter \cup {Append(q, m) : q \in {s \in shorter : Len(s) = n - 1}, m \in S}

Bodies == SeqsUpTo(InboundMessages, MaxBodyMsgs)

\* ------------------------------------------------------------------- state
VARIABLES
    clientClass,     \* which class the client instance is
    client,          \* the fields of the client instance
    stream,          \* the GET of the current connect(): none, get, open, ended
    resolved,        \* readSseStream's local flag
    connectPromise,  \* the promise the current connect() returned
    resolveCalls,    \* number of calls of that promise's resolve()
    endpointsSeen,   \* endpoint events processed on the current stream (up to 2)
    sendCalls,       \* number of sendRequest calls that passed the postUrl test
    reqs,            \* per such call, in order: its id, POST, promise and timer
    awaits,          \* per sendRequest call: the App function awaiting its promise
    notifying,       \* number of handleConnect calls awaiting sendNotification
    connectCalls,    \* number of handleConnect calls made
    lastDispatch,    \* "ignored" when the last step dispatched an inbound message
                     \* that the registry had no entry for, else "none"
    status,          \* App's connection status
    urls,            \* the URLs of a client: what connect() was given, what it
                     \* stored and what it dialled
    lastCall,        \* the last sendRequest or sendNotification call: what it
                     \* threw, how many handlers it handed its message to and
                     \* how many HTTP requests it issued before its first await
    notePosts,       \* number of sendNotification POSTs in flight
    facade,          \* the fields of a StreamableHttpMcpClient
    transports,      \* the CustomStreamableTransport objects its connect() made
    posts,           \* the POSTs their send() made
    deliveredBy,     \* the transport that handed a message to the facade's
                     \* message handlers in the last step, 0 when none did
    erroredBy,       \* the transport whose failure reached the facade's error
                     \* handlers in the last step, 0 when none did
    reader,          \* a readSseStream call: the text read so far, its buffer,
                     \* the blocks it cut off and the events it extracted
    relay            \* a call of the CORS relay's handler: the request, the
                     \* fetch it made and the response it returned

clientVars == <<clientClass, client, stream, resolved, connectPromise, resolveCalls,
                endpointsSeen, sendCalls, reqs, lastDispatch>>
appVars == <<status, awaits, notifying, connectCalls>>
\* the state of the closer views of the client, which the correlator's
\* specifications leave alone
sessVars == <<lastCall, notePosts>>
httpVars == <<facade, transports, posts, deliveredBy, erroredBy>>
moreVars == <<reader, relay>>
extVars == <<urls, sessVars, httpVars, moreVars>>
vars == <<clientVars, appVars, extVars>>

\* a client that connect() has not been called on: no URL stored or dialled
NoUrls == [class |-> NULL, raw |-> <<>>, proxyConfig |-> [enabled |-> FALSE, prefix |-> ""],
           original |-> <<>>, getUrl |-> <<>>, postUrl |-> <<>>, posted |-> <<>>]

\* no sendRequest or sendNotification call made yet; calls is the number of
\* calls made so far, modulo 2
NoCall == [calls |-> 0, op |-> NULL, thrown |-> NULL, emitted |-> 0, fetches |-> 0]

\* a response without Mcp-Session-Id header; the values the header may have;
\* the transport's sessionId before any is stored
NoHeader == "none"
HeaderValues == {"s1", ""}
UNDEFINED == "undefined"

TransportIds == 1 .. MaxTransports
PostIds == 1 .. MaxPosts

\* a transport not constructed yet, a POST not made yet, and a
\* StreamableHttpMcpClient after construction
NoTransport == [abortController |-> FALSE, sessionId |-> UNDEFINED, get |-> "none",
                observed |-> NoHeader, promise |-> "none"]
NoPost == [transport |-> 0, carried |-> NoHeader, expected |-> NoHeader, state |-> "none"]
NoFacade == [client |-> 0, transport |-> 0, messageHandlers |-> 0, errorHandlers |-> 0]

\* readSseStream before its first read; split records that a chunk ended
\* inside a block separator
NoReader == [text |-> <<>>, buffer |-> <<>>, blocks |-> <<>>, events |-> <<>>,
             split |-> FALSE]

\* the relay's corsHeaders, by lower-cased name
corsHeaders ==
    [n \in {"access-control-allow-origin", "access-control-allow-methods",
            "access-control-allow-headers", "access-control-expose-headers"} |->
        IF n = "access-control-allow-methods" THEN "GET, POST, PUT, DELETE, OPTIONS"
        ELSE "*"]

\* a header a message does not have
ABSENT == "absent"
\* the response headers looked at
ResponseNames == DOMAIN corsHeaders \cup {"content-encoding", "content-type"}

\* the handler before a request reached it
NoRelay == [phase |-> "idle", method |-> NULL, targetUrl |-> NULL, headers |-> {},
            fetches |-> 0, upstream |-> [n \in ResponseNames |-> ABSENT],
            response |-> [status |-> 0, body |-> NULL,
                          headers |-> [n \in ResponseNames |-> ABSENT]]]

ExtIdle ==
    /\ urls = NoUrls
    /\ lastCall = NoCall
    /\ notePosts = 0
    /\ facade = NoFacade
    /\ transports = [t \in TransportIds |-> NoTransport]
    /\ posts = [p \in PostIds |-> NoPost]
    /\ deliveredBy = 0
    /\ erroredBy = 0
    /\ reader = NoReader
    /\ relay = NoRelay

\* ---------------------------------------------------------------- promises
PENDING == [state |-> "pending", val |-> NULL]
Resolved(v) == [state |-> "resolved", val |-> v]
Rejected(e) == [state |-> "rejected", val |-> e]

\* a promise keeps its first outcome; later resolve()/reject() calls are ignored
Settle(p, outcome) == IF p.state = "pending" THEN outcome ELSE p

\* a sendRequest call: id is the id it put on the wire, post its POST, promise the responsePromise, timer its
\* setTimeout; seen records that an inbound message with its id was dispatched
\* while the timer was running, respSettles and timerSettles count the resolve/reject calls
\* made by handleIncomingMessage and by the timer callback
NoReq == [id |-> NoId, post |-> "none",
          promise |-> [state |-> "none", val |-> NULL],
          timer |-> "none", seen |-> FALSE, respSettles |-> 0, timerSettles |-> 0]

\* the sendRequest calls made so far
Calls == {n \in Ids : n < sendCalls}

\* the promise the async function sendRequest returned to its caller: rejected
\* by the catch block when the POST failed, the response promise once the POST
\* succeeded, pending while the POST is awaited
CallerPromise(r) ==
    IF r.post = "failed" THEN Rejected(HTTP_ERROR)
    ELSE IF r.post = "ok" THEN r.promise
    ELSE PENDING

\* ------------------------------------------------------------- the client
InitClient ==
    [abortController |-> FALSE, postUrl |-> NULL, messageHandlers |-> <<>>,
     errorHandlers |-> <<>>, pendingRequests |-> <<>>, requestCounter |-> 0,
     sessionId |-> NULL, connectionType |-> "sse"]

\* the validator sendRequest registers for a method
ValidatorFor(class, method) ==
    class = "SseMcpClient" /\ method \in ValidatedMethods

\* validator.parse(result): throws on a result the schema refuses, otherwise
\* returns the parsed object, which has the schema's defaults filled in
\* a schema that refuses nothing
ParseThrowsNever(v) == FALSE
ParseThrows(v) == v = "Bad"
Parse(v) == IF v = "Sparse" THEN "SparseDefaulted" ELSE v

\* pendingRequests is a Map from id to {resolve, reject, validator}: here a
\* function from the ids it holds to [call |-> the sendRequest call whose
\* promise resolve and reject settle, validator |-> whether one is stored]
EmptyMap == <<>>
Keys(pend) == DOMAIN pend

\* pendingRequests.set(id, entry)
SetEntry(pend, id, entry) ==
    [k \in Keys(pend) \cup {id} |-> IF k = id THEN entry ELSE pend[k]]

\* a delete that leaves the entry in the Map
DeleteEntryKeeps(pend, id) == pend

\* a clear() where delete(id) was meant
DeleteEntryClears(pend, id) == EmptyMap

\* pendingRequests.delete(id)
DeleteEntry(pend, id) == [k \in Keys(pend) \ {id} |-> pend[k]]

\* pendingRequests.get(data.id), guarded by the test that data has an id
HasPending(pend, data) == data.id # NoId /\ data.id \in Keys(pend)

\* bookkeeping: a call whose timer is still running has seen a message
\* once an inbound message carrying its id is dispatched
MarkSeen(rq, data) ==
    [n \in DOMAIN rq |->
        IF data.id # NoId /\ rq[n].id = data.id /\ rq[n].timer = "armed"
        THEN [rq[n] EXCEPT !.seen = TRUE] ELSE rq[n]]

\* a resolve with the result as received, the validator's output dropped
ResolveValueRaw(entry, v) == v

\* the value handleIncomingMessage resolves the promise with
ResolveValue(entry, v) == IF entry.validator THEN Parse(v) ELSE v

\* handleIncomingMessage on the registry and the requests' promises;
\* st = [pend |-> registry, reqs |-> requests, hit |-> what the lookup found]
HandleIncomingMessage(st0, data) ==
    LET st == [st0 EXCEPT !.reqs = MarkSeen(st0.reqs, data)] IN
    IF HasPending(st.pend, data)
    THEN LET entry == st.pend[data.id]
             n == entry.call
             r == st.reqs[n]
             settled(o) == [r EXCEPT !.promise = Settle(r.promise, o),
                                     !.respSettles = r.respSettles + 1]
         IN  IF data.kind = "result"
             THEN IF entry.validator /\ ParseThrows(data.val)
                  THEN [pend |-> DeleteEntry(st.pend, data.id), hit |-> "none",
                        reqs |-> [st.reqs EXCEPT ![n] = settled(Rejected(ZOD_ERROR))]]
                  ELSE [pend |-> DeleteEntry(st.pend, data.id), hit |-> "none",
                        reqs |-> [st.reqs EXCEPT
                                    ![n] = settled(Resolved(ResolveValue(entry, data.val)))]]
             ELSE IF data.kind = "error"
             THEN [pend |-> DeleteEntry(st.pend, data.id), hit |-> "none",
                   reqs |-> [st.reqs EXCEPT ![n] = settled(Rejected(data.val))]]
             ELSE [pend |-> DeleteEntry(st.pend, data.id), hit |-> "none",
                   reqs |-> st.reqs]
    ELSE [st EXCEPT !.hit = "ignored"]

RECURSIVE DispatchAll(_, _)
DispatchAll(st, body) ==
    IF body = <<>> THEN st
    ELSE DispatchAll(HandleIncomingMessage(st, Head(body)), Tail(body))

\* a disconnect() that also restarts the id counter
DisconnectFieldsResetsCounter(class, c) ==
    IF class = "SseMcpClient"
    THEN [c EXCEPT !.abortController = FALSE, !.postUrl = NULL,
                   !.pendingRequests = EmptyMap, !.messageHandlers = <<>>,
                   !.errorHandlers = <<>>, !.sessionId = NULL, !.requestCounter = 0]
    ELSE [c EXCEPT !.abortController = FALSE, !.postUrl = NULL,
                   !.pendingRequests = EmptyMap, !.requestCounter = 0]

\* a disconnect() that leaves the session id in place
DisconnectFieldsKeepsSession(class, c) ==
    IF class = "SseMcpClient"
    THEN [c EXCEPT !.abortController = FALSE, !.postUrl = NULL,
                   !.pendingRequests = EmptyMap, !.messageHandlers = <<>>,
                   !.errorHandlers = <<>>]
    ELSE [c EXCEPT !.abortController = FALSE, !.postUrl = NULL,
                   !.pendingRequests = EmptyMap]

\* disconnect() on the client's fields
DisconnectFields(class, c) ==
    IF class = "SseMcpClient"
    THEN [c EXCEPT !.abortController = FALSE, !.postUrl = NULL,
                   !.pendingRequests = EmptyMap, !.messageHandlers = <<>>,
                   !.errorHandlers = <<>>, !.sessionId = NULL]
    ELSE [c EXCEPT !.abortController = FALSE, !.postUrl = NULL,
                   !.pendingRequests = EmptyMap]

\* what disconnect() does to the promises of the requests it drops:
\* pendingRequests.clear() calls neither resolve nor reject
DisconnectPromises(pend, rq) == rq

\* abortController.abort() on the GET of the current connect()
AbortStream(c, s) == IF c.abortController /\ s \in {"get", "open"} THEN "none" ELSE s

\* ... and on the promise of that connect(): an aborted fetch rejects it with
\* 'Connection aborted', an aborted read is swallowed by readSseStream
AbortConnectPromise(c, s, p) ==
    IF c.abortController /\ s = "get" THEN Settle(p, Rejected(CONNECT_ABORTED)) ELSE p

\* a timer callback that rejects without looking at the registry
TimerFindsAlways(pend, id) == TRUE

\* a timer callback whose test never succeeds
TimerFindsNever(pend, id) == FALSE

\* the timer callback's test pendingRequests.has(id)
TimerFinds(pend, id) == id \in Keys(pend)

\* an endpoint branch that calls resolve() on every endpoint event
ResolvesConnectAlways(flag) == TRUE

\* readSseStream's test before resolve(): if (!resolved)
ResolvesConnect(flag) == ~flag

\* a counter that is read but not incremented
NextCounterStuck(n) == n

\* requestCounter++
NextCounter(n) == n + 1

\* a sendRequest that takes its id before it tests postUrl
IssueBeforeGuard(st, method) ==
    LET id == st.client.requestCounter
        n == st.calls
        entry == [call |-> n, validator |-> ValidatorFor(clientClass, method)]
        c1 == [st.client EXCEPT !.requestCounter = NextCounter(@)]
    IN  IF st.client.postUrl = NULL THEN [st EXCEPT !.client = c1]
        ELSE [client |-> [c1 EXCEPT !.pendingRequests = SetEntry(@, id, entry)],
              reqs |-> [st.reqs EXCEPT ![n] =
                          [id |-> id, post |-> "inflight", promise |-> PENDING,
                           timer |-> "armed", seen |-> FALSE,
                           respSettles |-> 0, timerSettles |-> 0]],
              calls |-> n + 1]

\* sendRequest(): the synchronous part, up to the await of the POST, on
\* st = [client, reqs, calls]; it throws while postUrl is null
Issue(st, method) ==
    IF st.client.postUrl = NULL THEN st
    ELSE LET id == st.client.requestCounter
             n == st.calls
             entry == [call |-> n, validator |-> ValidatorFor(clientClass, method)]
         IN  [client |-> [st.client EXCEPT !.requestCounter = NextCounter(@),
                                           !.pendingRequests = SetEntry(@, id, entry)],
              reqs |-> [st.reqs EXCEPT ![n] =
                          [id |-> id, post |-> "inflight", promise |-> PENDING,
                           timer |-> "armed", seen |-> FALSE,
                           respSettles |-> 0, timerSettles |-> 0]],
              calls |-> n + 1]

\* a caller's sendRequest calls made one after the other without yielding,
\* as many of them as the bound on calls leaves room for
RECURSIVE IssueAll(_, _, _)
IssueAll(st, methods, max) ==
    IF methods = <<>> \/ st.calls >= max THEN st
    ELSE IssueAll(Issue(st, Head(methods)), Tail(methods), max)

\* App's errorHandler, run by emitError for every registered error handler
EmitError(c, st) == IF c.errorHandlers # <<>> THEN "ERROR" ELSE st

SseMode == clientClass = "SseMcpClient" \/ client.connectionType = "sse"
NeverConnected == connectPromise.state = "none"

\* ------------------------------------------------- operations of the client
\* (the client's own state only; what App does around them is added below)

\* App registers its messageHandler and errorHandler with a new client
RegisterHandlers ==
    /\ NeverConnected
    /\ Len(client.messageHandlers) < MaxHandlers
    /\ client' = [client EXCEPT !.messageHandlers = Append(@, "messageHandler"),
                                !.errorHandlers = Append(@, "errorHandler")]
    /\ lastDispatch' = "none"
    /\ UNCHANGED <<clientClass, stream, resolved, connectPromise, resolveCalls,
                   endpointsSeen, sendCalls, reqs>>

\* connect(): the synchronous part, up to the await of the GET
Connect(type) ==
    /\ clientClass = "SseMcpClient" => type = "sse"
    /\ LET c1 == IF clientClass = "SseMcpClient"
                 THEN [client EXCEPT !.sessionId = NULL]
                 ELSE [client EXCEPT !.connectionType = type]
           c2 == DisconnectFields(clientClass, c1)
           c3 == [c2 EXCEPT !.abortController = TRUE]
           http == clientClass = "McpClient" /\ type = "streamable_http"
       IN  /\ client' = IF http THEN [c3 EXCEPT !.postUrl = BaseUrl] ELSE c3
           /\ stream' = IF http THEN "none" ELSE "get"
           /\ connectPromise' = IF http THEN Resolved(NULL) ELSE PENDING
           /\ resolveCalls' = IF http THEN 1 ELSE 0
    /\ reqs' = DisconnectPromises(client.pendingRequests, reqs)
    /\ resolved' = FALSE
    /\ endpointsSeen' = 0
    /\ lastDispatch' = "none"
    /\ UNCHANGED <<clientClass, sendCalls>>

\* the GET answers 2xx with a body: connect() starts readSseStream
GetOk(sess) ==
    /\ stream = "get"
    /\ clientClass = "McpClient" => sess = NULL
    /\ stream' = "open"
    /\ client' = IF sess # NULL THEN [client EXCEPT !.sessionId = sess] ELSE client
    /\ lastDispatch' = "none"
    /\ UNCHANGED <<clientClass, resolved, connectPromise, resolveCalls,
                   endpointsSeen, sendCalls, reqs>>

\* the GET fails: a non-2xx status, a response without body, a network error
GetFailed(reason) ==
    /\ stream = "get"
    /\ stream' = "none"
    /\ connectPromise' = Settle(connectPromise, Rejected(CONNECT_ERROR))
    /\ lastDispatch' = "none"
    /\ UNCHANGED <<clientClass, client, resolved, resolveCalls, endpointsSeen, sendCalls, reqs>>

\* readSseStream: an endpoint event whose data resolves to a URL; when it
\* resolves the connect() promise, the caller awaiting it goes on before the
\* stream is read again and makes the sendRequest calls `then`
StreamEndpointThen(url, then, max) ==
    /\ stream = "open"
    /\ (connectPromise.state = "pending" /\ then # <<>>) => sendCalls < max
    /\ resolved' = TRUE
    /\ connectPromise' = IF ResolvesConnect(resolved)
                         THEN Settle(connectPromise, Resolved(NULL)) ELSE connectPromise
    /\ resolveCalls' = IF ResolvesConnect(resolved) THEN resolveCalls + 1 ELSE resolveCalls
    /\ endpointsSeen' = IF endpointsSeen < 2 THEN endpointsSeen + 1 ELSE endpointsSeen
    /\ LET c1 == [client EXCEPT !.postUrl = url]
           st == IssueAll([client |-> c1, reqs |-> reqs, calls |-> sendCalls],
                          IF connectPromise.state = "pending" /\ ResolvesConnect(resolved)
                          THEN then ELSE <<>>, max)
       IN  /\ client' = st.client
           /\ reqs' = st.reqs
           /\ sendCalls' = st.calls
    /\ lastDispatch' = "none"
    /\ UNCHANGED <<clientClass, stream>>

StreamEndpoint(url) == StreamEndpointThen(url, <<>>, MaxRequests)

\* readSseStream: an endpoint event whose data new URL() refuses
StreamBadEndpoint ==
    /\ stream = "open"
    /\ connectPromise' = IF ~resolved
                         THEN Settle(connectPromise, Rejected(CONNECT_ERROR))
                         ELSE connectPromise
    /\ lastDispatch' = "none"
    /\ UNCHANGED <<clientClass, client, stream, resolved, resolveCalls, endpointsSeen, sendCalls, reqs>>

\* readSseStream: a message event with JSON data
StreamMessage(m) ==
    /\ stream = "open"
    /\ LET st == HandleIncomingMessage(
                    [pend |-> client.pendingRequests, reqs |-> reqs, hit |-> "none"], m)
       IN  /\ client' = [client EXCEPT !.pendingRequests = st.pend]
           /\ reqs' = st.reqs
           /\ lastDispatch' = st.hit
    /\ UNCHANGED <<clientClass, stream, resolved, connectPromise, resolveCalls,
                   endpointsSeen, sendCalls>>

\* readSseStream: the server ends the stream (done)
StreamEnd ==
    /\ stream = "open"
    /\ stream' = "ended"
    /\ resolved' = FALSE
    /\ endpointsSeen' = 0
    /\ lastDispatch' = "none"
    /\ UNCHANGED <<clientClass, client, connectPromise, resolveCalls, sendCalls, reqs>>

\* readSseStream: reader.read() fails with an error other than AbortError
StreamError ==
    /\ stream = "open"
    /\ stream' = "ended"
    /\ connectPromise' = IF ~resolved
                         THEN Settle(connectPromise, Rejected(CONNECT_ERROR))
                         ELSE connectPromise
    /\ resolved' = FALSE
    /\ endpointsSeen' = 0
    /\ lastDispatch' = "none"
    /\ UNCHANGED <<clientClass, client, resolveCalls, sendCalls, reqs>>

\* disconnect()
Disconnect ==
    /\ client' = DisconnectFields(clientClass, client)
    /\ reqs' = DisconnectPromises(client.pendingRequests, reqs)
    /\ stream' = AbortStream(client, stream)
    /\ connectPromise' = AbortConnectPromise(client, stream, connectPromise)
    /\ resolved' = (resolved /\ stream' = "open")
    /\ endpointsSeen' = IF stream' = "open" THEN endpointsSeen ELSE 0
    /\ lastDispatch' = "none"
    /\ UNCHANGED <<clientClass, resolveCalls, sendCalls>>

\* sendRequest() called while postUrl is set
SendRequest(method) ==
    /\ client.postUrl # NULL
    /\ sendCalls < MaxRequests
    /\ LET st == Issue([client |-> client, reqs |-> reqs, calls |-> sendCalls], method)
       IN  /\ client' = st.client
           /\ reqs' = st.reqs
           /\ sendCalls' = st.calls
    /\ lastDispatch' = "none"
    /\ UNCHANGED <<clientClass, stream, resolved, connectPromise, resolveCalls,
                   endpointsSeen>>

\* the setTimeout callback of call n, which holds the call's id and reject;
\* timers of equal delay fire in the order in which they were set
TimerFire(n) ==
    /\ reqs[n].timer = "armed"
    /\ \A k \in Ids : k < n => reqs[k].timer # "armed"
    /\ IF TimerFinds(client.pendingRequests, reqs[n].id)
       THEN /\ client' = [client EXCEPT !.pendingRequests = DeleteEntry(@, reqs[n].id)]
            /\ reqs' = [reqs EXCEPT ![n].timer = "fired",
                                    ![n].promise = Settle(@, Rejected(TIMEOUT_ERROR)),
                                    ![n].timerSettles = @ + 1]
       ELSE /\ client' = client
            /\ reqs' = [reqs EXCEPT ![n].timer = "fired"]
    /\ lastDispatch' = "none"
    /\ UNCHANGED <<clientClass, stream, resolved, connectPromise, resolveCalls,
                   endpointsSeen, sendCalls>>

\* the POST of call n answers 2xx; McpClient in streamable_http mode
\* dispatches the messages of the body
PostOk(n, sess, body) ==
    /\ reqs[n].post = "inflight"
    /\ clientClass = "SseMcpClient" => body = <<>>
    /\ clientClass = "McpClient" => sess = NULL
    /\ client.connectionType = "sse" => body = <<>>
    /\ LET c1 == IF sess # NULL THEN [client EXCEPT !.sessionId = sess] ELSE client
           st == DispatchAll(
                    [pend |-> c1.pendingRequests, reqs |-> reqs, hit |-> "none"], body)
       IN  /\ client' = [c1 EXCEPT !.pendingRequests = st.pend]
           /\ reqs' = [st.reqs EXCEPT ![n].post = "ok"]
           /\ lastDispatch' = st.hit
    /\ UNCHANGED <<clientClass, stream, resolved, connectPromise, resolveCalls,
                   endpointsSeen, sendCalls>>

\* a catch block that rethrows and leaves the call's id in the registry
PostFailedKeepsEntry(n, sess) ==
    /\ reqs[n].post = "inflight"
    /\ clientClass = "McpClient" => sess = NULL
    /\ client' = IF sess # NULL THEN [client EXCEPT !.sessionId = sess] ELSE client
    /\ reqs' = [reqs EXCEPT ![n].post = "failed"]
    /\ lastDispatch' = "none"
    /\ UNCHANGED <<clientClass, stream, resolved, connectPromise, resolveCalls,
                   endpointsSeen, sendCalls>>

\* the POST of call n fails: fetch throws, or the status is not 2xx; the
\* catch block deletes the call's id from the registry and rethrows
PostFailed(n, sess) ==
    /\ reqs[n].post = "inflight"
    /\ clientClass = "McpClient" => sess = NULL
    /\ LET c1 == IF sess # NULL THEN [client EXCEPT !.sessionId = sess] ELSE client
       IN  client' = [c1 EXCEPT !.pendingRequests = DeleteEntry(@, reqs[n].id)]
    /\ reqs' = [reqs EXCEPT ![n].post = "failed"]
    /\ lastDispatch' = "none"
    /\ UNCHANGED <<clientClass, stream, resolved, connectPromise, resolveCalls,
                   endpointsSeen, sendCalls>>

\* ------------------------------------ the client under an arbitrary caller
InitClientVars ==
    /\ clientClass \in Classes
    /\ client = InitClient
    /\ stream = "none"
    /\ resolved = FALSE
    /\ connectPromise = [state |-> "none", val |-> NULL]
    /\ resolveCalls = 0
    /\ endpointsSeen = 0
    /\ sendCalls = 0
    /\ reqs = [n \in Ids |-> NoReq]
    /\ lastDispatch = "none"

Init ==
    /\ InitClientVars
    /\ ExtIdle
    /\ status = "DISCONNECTED"
    /\ awaits = [n \in Ids |-> "none"]
    /\ notifying = 0
    /\ connectCalls = 0

SoloRegisterHandlers == RegisterHandlers /\ UNCHANGED <<appVars, extVars>>
SoloConnect == (\E type \in ConnectionTypes : Connect(type)) /\ UNCHANGED <<appVars, extVars>>
SoloDisconnect == Disconnect /\ UNCHANGED <<appVars, extVars>>
SoloSendRequest == (\E method \in Methods : SendRequest(method)) /\ UNCHANGED <<appVars, extVars>>
SoloGetOk == (\E sess \in SessionIds \cup {NULL} : GetOk(sess)) /\ UNCHANGED <<appVars, extVars>>
SoloGetFailed == (\E reason \in GetFailures : GetFailed(reason)) /\ UNCHANGED <<appVars, extVars>>
SoloStreamEndpoint == (\E url \in EndpointUrls : StreamEndpoint(url)) /\ UNCHANGED <<appVars, extVars>>
SoloStreamBadEndpoint == StreamBadEndpoint /\ UNCHANGED <<appVars, extVars>>
SoloStreamMessage == (\E m \in InboundMessages : StreamMessage(m)) /\ UNCHANGED <<appVars, extVars>>
SoloStreamEnd == StreamEnd /\ UNCHANGED <<appVars, extVars>>
SoloStreamError == StreamError /\ UNCHANGED <<appVars, extVars>>
SoloTimerFire == (\E n \in Ids : TimerFire(n)) /\ UNCHANGED <<appVars, extVars>>
SoloPostOk ==
    /\ \E n \in Ids, sess \in SessionIds \cup {NULL}, body \in Bodies : PostOk(n, sess, body)
    /\ UNCHANGED <<appVars, extVars>>
SoloPostFailed ==
    /\ \E n \in Ids, sess \in SessionIds \cup {NULL} : PostFailed(n, sess)
    /\ UNCHANGED <<appVars, extVars>>

Next ==
    \/ SoloRegisterHandlers
    \/ SoloConnect
    \/ SoloDisconnect
    \/ SoloSendRequest
    \/ SoloGetOk
    \/ SoloGetFailed
    \/ SoloStreamEndpoint
    \/ SoloStreamBadEndpoint
    \/ SoloStreamMessage
    \/ SoloStreamEnd
    \/ SoloStreamError
    \/ SoloTimerFire
    \/ SoloPostOk
    \/ SoloPostFailed

Spec == Init /\ [][Next]_vars

\* ------------------------------------------------- the client under App
\* App with its initial SseMcpClient, after the effect that registers
\* messageHandler and errorHandler has run
AppInit ==
    /\ ExtIdle
    /\ clientClass = "SseMcpClient"
    /\ client = [InitClient EXCEPT !.messageHandlers = <<"messageHandler">>,
                                   !.errorHandlers = <<"errorHandler">>]
    /\ stream = "none"
    /\ resolved = FALSE
    /\ connectPromise = [state |-> "none", val |-> NULL]
    /\ resolveCalls = 0
    /\ endpointsSeen = 0
    /\ sendCalls = 0
    /\ reqs = [n \in Ids |-> NoReq]
    /\ lastDispatch = "none"
    /\ status = "DISCONNECTED"
    /\ awaits = [n \in Ids |-> "none"]
    /\ notifying = 0
    /\ connectCalls = 0

IsSettled(p) == p.state \in {"resolved", "rejected"}

\* the calls whose caller's await ends in this step
Woken == {n \in Ids : /\ awaits[n] # "none"
                      /\ ~IsSettled(CallerPromise(reqs[n]))
                      /\ IsSettled(CallerPromise(reqs'[n]))}

\* what the awaiting App functions do when the promise of their sendRequest
\* settles: fetchTools, fetchResources and fetchPrompts log and return;
\* handleConnect goes on to sendNotification when initialize resolved, and its
\* catch block sets the status to ERROR when initialize was rejected or
\* sendNotification throws for want of a postUrl
AppWake ==
    LET hc == {n \in Woken : awaits[n] = "handleConnect"}
    IN  /\ awaits' = [n \in Ids |-> IF n \in Woken THEN "none" ELSE awaits[n]]
        /\ IF hc = {}
           THEN status' = status /\ notifying' = notifying
           ELSE IF \/ \E n \in hc : CallerPromise(reqs'[n]).state = "rejected"
                   \/ client'.postUrl = NULL
           THEN status' = "ERROR" /\ notifying' = notifying
           ELSE status' = status /\ notifying' = notifying + 1
        /\ UNCHANGED <<connectCalls, extVars>>

\* handleConnect with the transport that is active: up to the await of connect();
\* ConnectionBar's handleSubmit calls it only when the status is neither
\* CONNECTED nor CONNECTING (it calls handleDisconnect then)
HandleConnect ==
    /\ connectCalls < MaxAppConnects
    /\ status \notin {"CONNECTED", "CONNECTING"}
    /\ connectCalls' = connectCalls + 1
    /\ Connect("sse")
    /\ status' = "CONNECTING"
    /\ UNCHANGED <<awaits, notifying, extVars>>

\* a handleDisconnect that disconnects the client and forgets setStatus
HandleDisconnectKeepsStatus ==
    /\ Disconnect
    /\ UNCHANGED <<status, awaits, notifying, connectCalls, extVars>>

\* handleDisconnect
HandleDisconnect ==
    /\ Disconnect
    /\ status' = "DISCONNECTED"
    /\ UNCHANGED <<awaits, notifying, connectCalls, extVars>>

AppGetOk ==
    /\ \E sess \in SessionIds \cup {NULL} : GetOk(sess)
    /\ UNCHANGED <<appVars, extVars>>

\* connect() rejects, after emitError when the status was not 2xx;
\* handleConnect's catch block sets the status
AppGetFailed ==
    /\ \E reason \in GetFailures : GetFailed(reason)
    /\ status' = "ERROR"
    /\ UNCHANGED <<awaits, notifying, connectCalls, extVars>>

\* the endpoint event; when it resolves connect(), handleConnect sets the
\* status and calls sendRequest('initialize')
AppStreamEndpoint ==
    /\ \E url \in EndpointUrls : StreamEndpointThen(url, <<"initialize">>, MaxAppRequests)
    /\ status' = IF connectPromise.state = "pending" /\ connectPromise'.state = "resolved"
                 THEN "CONNECTED" ELSE status
    /\ awaits' = [n \in Ids |-> IF sendCalls <= n /\ n < sendCalls'
                                THEN "handleConnect" ELSE awaits[n]]
    /\ UNCHANGED <<notifying, connectCalls, extVars>>

AppStreamBadEndpoint ==
    /\ StreamBadEndpoint
    /\ status' = IF connectPromise.state = "pending" /\ connectPromise'.state = "rejected"
                 THEN "ERROR" ELSE EmitError(client, status)
    /\ UNCHANGED <<awaits, notifying, connectCalls, extVars>>

AppStreamMessage ==
    /\ \E m \in InboundMessages : StreamMessage(m)
    /\ AppWake

AppStreamEnd ==
    /\ StreamEnd
    /\ UNCHANGED <<appVars, extVars>>

AppStreamError ==
    /\ StreamError
    /\ status' = IF connectPromise.state = "pending" /\ connectPromise'.state = "rejected"
                 THEN "ERROR" ELSE EmitError(client, status)
    /\ UNCHANGED <<awaits, notifying, connectCalls, extVars>>

AppTimerFire ==
    /\ \E n \in Ids : TimerFire(n)
    /\ AppWake

AppPostOk ==
    /\ \E n \in Ids, sess \in SessionIds \cup {NULL} : PostOk(n, sess, <<>>)
    /\ AppWake

AppPostFailed ==
    /\ \E n \in Ids, sess \in SessionIds \cup {NULL} : PostFailed(n, sess)
    /\ AppWake

\* the POST of sendNotification answers 2xx: handleConnect calls
\* fetchAllCapabilities, whose three functions call sendRequest in turn
NotifyOk(sess) ==
    /\ notifying > 0
    /\ notifying' = notifying - 1
    /\ LET c1 == IF sess # NULL THEN [client EXCEPT !.sessionId = sess] ELSE client
           st == IssueAll([client |-> c1, reqs |-> reqs, calls |-> sendCalls],
                          <<"tools/list", "resources/list", "prompts/list">>,
                          MaxAppRequests)
       IN  /\ client' = st.client
           /\ reqs' = st.reqs
           /\ sendCalls' = st.calls
    /\ awaits' = [n \in Ids |-> IF sendCalls <= n /\ n < sendCalls'
                                THEN "fetch" ELSE awaits[n]]
    /\ lastDispatch' = "none"
    /\ UNCHANGED <<clientClass, stream, resolved, connectPromise, resolveCalls,
                   endpointsSeen, status, connectCalls, extVars>>

\* the POST of sendNotification fails: handleConnect's catch block
NotifyFailed(sess) ==
    /\ notifying > 0
    /\ notifying' = notifying - 1
    /\ client' = IF sess # NULL THEN [client EXCEPT !.sessionId = sess] ELSE client
    /\ status' = "ERROR"
    /\ lastDispatch' = "none"
    /\ UNCHANGED <<clientClass, stream, resolved, connectPromise, resolveCalls,
                   endpointsSeen, sendCalls, reqs, awaits, connectCalls, extVars>>

AppNotifyOk == \E sess \in SessionIds \cup {NULL} : NotifyOk(sess)
AppNotifyFailed == \E sess \in SessionIds \cup {NULL} : NotifyFailed(sess)

AppNext ==
    \/ HandleConnect
    \/ HandleDisconnect
    \/ AppGetOk
    \/ AppGetFailed
    \/ AppStreamEndpoint
    \/ AppStreamBadEndpoint
    \/ AppStreamMessage
    \/ AppStreamEnd
    \/ AppStreamError
    \/ AppTimerFire
    \/ AppPostOk
    \/ AppPostFailed
    \/ AppNotifyOk
    \/ AppNotifyFailed

AppSpec == AppInit /\ [][AppNext]_vars

\* sendRequest settles every promise only if the POST completes and the timer
\* goes off: both are events the runtime delivers
FairSpec ==
    /\ Spec
    /\ WF_vars(SoloTimerFire)
    /\ WF_vars(SoloPostOk \/ SoloPostFailed)

\* ------------------------------ calls made while the client is not connected
\* what a sendRequest or sendNotification call on client c does before its
\* first await, as its caller and the outside see it: the error it throws,
\* the number of message handlers it hands its message to, the number of
\* fetch calls it makes
CallOutcome(c) ==
    IF c.postUrl = NULL
    THEN [thrown |-> NOT_CONNECTED, emitted |-> 0, fetches |-> 0]
    ELSE [thrown |-> NULL, emitted |-> Len(c.messageHandlers), fetches |-> 1]

Record(op, out) ==
    [calls |-> 1 - lastCall.calls, op |-> op, thrown |-> out.thrown,
     emitted |-> out.emitted, fetches |-> out.fetches]

\* sendRequest(method), whatever the state of the client
TrySendRequest(method) ==
    /\ client.postUrl # NULL => sendCalls < MaxSessRequests
    /\ LET st == Issue([client |-> client, reqs |-> reqs, calls |-> sendCalls], method)
       IN  /\ client' = st.client
           /\ reqs' = st.reqs
           /\ sendCalls' = st.calls
    /\ lastCall' = Record("sendRequest", CallOutcome(client))
    /\ lastDispatch' = "none"
    /\ UNCHANGED <<clientClass, stream, resolved, connectPromise, resolveCalls,
                   endpointsSeen, notePosts, appVars, urls, httpVars, moreVars>>

\* sendNotification(method), whatever the state of the client
TrySendNotification ==
    /\ client.postUrl # NULL => notePosts < MaxNotes
    /\ notePosts' = notePosts + CallOutcome(client).fetches
    /\ lastCall' = Record("sendNotification", CallOutcome(client))
    /\ lastDispatch' = "none"
    /\ UNCHANGED <<clientClass, client, stream, resolved, connectPromise, resolveCalls,
                   endpointsSeen, sendCalls, reqs, appVars, urls, httpVars, moreVars>>

\* the POST of a sendNotification call completes, 2xx or not: SseMcpClient
\* takes the session id of the response before it tests res.ok
NotePostDone(sess) ==
    /\ notePosts > 0
    /\ clientClass = "McpClient" => sess = NULL
    /\ notePosts' = notePosts - 1
    /\ client' = IF sess # NULL THEN [client EXCEPT !.sessionId = sess] ELSE client
    /\ lastDispatch' = "none"
    /\ UNCHANGED <<clientClass, stream, resolved, connectPromise, resolveCalls,
                   endpointsSeen, sendCalls, reqs, lastCall, appVars, urls, httpVars, moreVars>>

\* a read loop that treats a frame it cannot parse as a failure of the stream
StreamBadJsonEndsStream ==
    /\ stream = "open"
    /\ stream' = "ended"
    /\ connectPromise' = IF resolved THEN connectPromise
                         ELSE Settle(connectPromise, Rejected(CONNECT_ERROR))
    /\ lastDispatch' = "skipped"
    /\ UNCHANGED <<clientClass, client, resolved, resolveCalls, endpointsSeen,
                   sendCalls, reqs, appVars, extVars>>

\* readSseStream: a message event whose data JSON.parse refuses; the catch
\* block of the message branch logs it and the loop goes on
StreamBadJson ==
    /\ stream = "open"
    /\ lastDispatch' = "skipped"
    /\ UNCHANGED <<clientClass, client, stream, resolved, connectPromise, resolveCalls,
                   endpointsSeen, sendCalls, reqs, appVars, extVars>>

SessNext ==
    \/ SoloRegisterHandlers
    \/ SoloConnect
    \/ SoloDisconnect
    \/ SoloGetOk
    \/ SoloGetFailed
    \/ SoloStreamEndpoint
    \/ SoloStreamBadEndpoint
    \/ SoloStreamMessage
    \/ SoloStreamEnd
    \/ SoloStreamError
    \/ SoloTimerFire
    \/ SoloPostOk
    \/ SoloPostFailed
    \/ \E method \in Methods : TrySendRequest(method)
    \/ TrySendNotification
    \/ StreamBadJson
    \/ \E sess \in SessionIds \cup {NULL} : NotePostDone(sess)

SessSpec == Init /\ [][SessNext]_vars

\* ------------------------------------------------ the URLs a client dials
\* A URL string is the sequence of its parts, an origin followed by a path
\* with its query; prefix + url puts the prefix in front of the parts of url.
UrlClasses == {"SseMcpClient", "McpClient", "StreamableHttpMcpClient"}
Origins == {"http://host", "http://other", "https://proxy", "https://relay"}
\* CORS relays take the target in a query parameter (api/cors.ts)
Prefixes == {"https://proxy/cors?url=", "https://relay/?url="}
\* the URL a caller passes to connect()
RawUrls == {<<"http://host", "/sse">>, <<"http://host", "/api/mcp">>}
\* the default { enabled: false, prefix: '' } and the configurations of the
\* connection form
ProxyConfigs == {[enabled |-> FALSE, prefix |-> ""]} \cup [enabled : BOOLEAN, prefix : Prefixes]
\* the data of an endpoint event: a path, a path with a query, a reference
\* relative to the directory of the base, an absolute URL
PathAbsolute == {"/rpc", "/messages?x=1"}
PathRelative == {"rpc"}
EndpointValues == {<<v>> : v \in PathAbsolute \cup PathRelative} \cup {<<"http://other", "/rpc">>}

\* new URL(base): the origin of a URL, which for a URL behind a prefix is the
\* origin of the relay
OriginOf(base) ==
    IF Head(base) = "https://proxy/cors?url=" THEN "https://proxy"
    ELSE IF Head(base) = "https://relay/?url=" THEN "https://relay"
    ELSE Head(base)

\* the path of a URL up to and including its last slash
DirOf(base) ==
    IF Head(base) \in Prefixes THEN "/"
    ELSE IF base[2] = "/api/mcp" THEN "/api/"
    ELSE "/"

\* new URL(v, base).toString()
ResolveUrl(v, base) ==
    IF Head(v) \in Origins THEN v
    ELSE IF Head(v) \in PathAbsolute THEN <<OriginOf(base), Head(v)>>
    ELSE <<OriginOf(base), DirOf(base) \o Head(v)>>

\* prefix + url
Concat(prefix, url) == IF prefix = "" THEN url ELSE <<prefix>> \o url

\* a rewriter that prepends the prefix whatever the enabled flag says
EffectiveUrlIgnoresFlag(cfg, url) == Concat(cfg.prefix, url)

\* proxyConfig.enabled ? proxyConfig.prefix + url : url
EffectiveUrl(cfg, url) == IF cfg.enabled THEN Concat(cfg.prefix, url) ELSE url

\* an endpoint branch that resolves against the URL it dialled
EndpointBaseDialled(u) == u.getUrl

\* the base the endpoint branch resolves the event's data against
EndpointBase(u) == u.original

\* connect(url, proxyConfig): the three clients store the caller's URL and
\* configuration; the SSE clients dial the GET and wait for the endpoint
\* event, McpClient in streamable_http mode takes the URL as its POST target,
\* StreamableHttpMcpClient hands finalUrl to its transport, which dials it for
\* the GET of start() and for every POST
UrlConnect(class, type, raw, cfg) ==
    /\ class # "McpClient" => type = (IF class = "SseMcpClient" THEN "sse" ELSE "streamable_http")
    /\ urls' = [class |-> class, raw |-> raw, proxyConfig |-> cfg, original |-> raw,
                getUrl |-> IF class = "McpClient" /\ type = "streamable_http"
                           THEN <<>> ELSE EffectiveUrl(cfg, raw),
                postUrl |-> IF type = "streamable_http" THEN EffectiveUrl(cfg, raw) ELSE <<>>,
                posted |-> <<>>]

\* readSseStream's endpoint branch with the event's data v
UrlEndpoint(v) ==
    /\ urls.class \in {"SseMcpClient", "McpClient"}
    /\ urls.getUrl # <<>>
    /\ urls' = [urls EXCEPT !.postUrl =
                  EffectiveUrl(urls.proxyConfig, ResolveUrl(v, EndpointBase(urls)))]

\* a send: fetch(this.postUrl, {method: 'POST', ...})
UrlPost ==
    /\ urls.postUrl # <<>>
    /\ urls' = [urls EXCEPT !.posted = urls.postUrl]

\* disconnect(): the GET is aborted and the POST target forgotten
UrlDisconnect ==
    /\ urls.class # NULL
    /\ urls' = [urls EXCEPT !.getUrl = <<>>, !.postUrl = <<>>]

UrlInit == Init /\ clientClass = "SseMcpClient"

UrlNext ==
    \/ /\ \E class \in UrlClasses, type \in ConnectionTypes, raw \in RawUrls,
              cfg \in ProxyConfigs : UrlConnect(class, type, raw, cfg)
       /\ UNCHANGED <<clientVars, appVars, sessVars, httpVars, moreVars>>
    \/ /\ \E v \in EndpointValues : UrlEndpoint(v)
       /\ UNCHANGED <<clientVars, appVars, sessVars, httpVars, moreVars>>
    \/ UrlPost /\ UNCHANGED <<clientVars, appVars, sessVars, httpVars, moreVars>>
    \/ UrlDisconnect /\ UNCHANGED <<clientVars, appVars, sessVars, httpVars, moreVars>>

UrlSpec == UrlInit /\ [][UrlNext]_vars

\* ------------------------------------- the Streamable HTTP client facade
\* StreamableHttpMcpClient and the CustomStreamableTransport objects it makes.
\* The SDK's Client sits between them: its connect() calls the transport's
\* start() and then sends the handshake through send(), its request() and
\* notification() call send(), its close() calls the transport's close().

\* if (this.sessionId): undefined and the empty string are falsy
Truthy(v) == v \notin {UNDEFINED, ""}

\* getMcpSessionId(response.headers) on transport tr, followed by the caller's
\* if (sessId) this.sessionId = sessId; h is the response's Mcp-Session-Id
GetMcpSessionId(tr, h) ==
    LET t1 == IF h # NoHeader THEN [tr EXCEPT !.sessionId = h] ELSE tr
    IN  IF h # NoHeader /\ Truthy(h) THEN [t1 EXCEPT !.sessionId = h] ELSE t1

\* the session id of the response's header, if it holds one, as the latest
\* one seen on the connection
Observe(tr, h) == IF h # NoHeader /\ Truthy(h) THEN [tr EXCEPT !.observed = h] ELSE tr

\* the Mcp-Session-Id header send() puts on a request
CarriedHeader(tr) == IF Truthy(tr.sessionId) THEN tr.sessionId ELSE NoHeader

\* the facade's messageLogger closure, called by transport t
MessageLogger(t) == IF facade.messageHandlers > 0 THEN t ELSE 0

\* emitError(msg) on behalf of transport t: every registered error handler
\* is called. connect() sets it as the transport's onerror before it hands the
\* transport to the SDK's Client, which keeps the handlers it finds
EmitErrorFor(t) == IF facade.errorHandlers > 0 THEN t ELSE 0

\* number of transports made so far
Made == Cardinality({t \in TransportIds : transports[t].promise # "none"})

\* close(): the controller aborts the GET and is dropped
Close(tr) ==
    [tr EXCEPT !.abortController = FALSE,
               !.get = IF @ \in {"inflight", "open"} THEN "aborted" ELSE @]

\* the POSTs of transport t that hold the signal of its controller
AbortPosts(ps, t) ==
    [p \in PostIds |-> IF ps[p].transport = t /\ ps[p].state = "inflight"
                       THEN [ps[p] EXCEPT !.state = "aborted"] ELSE ps[p]]

\* onMessage(handler) and onError(handler)
HttpRegister ==
    /\ facade.messageHandlers < MaxHandlers
    /\ facade' = [facade EXCEPT !.messageHandlers = @ + 1, !.errorHandlers = @ + 1]
    /\ deliveredBy' = 0
    /\ erroredBy' = 0
    /\ UNCHANGED <<transports, posts>>

\* connect(): a new Client and a new transport replace the fields' values,
\* the earlier ones are left as they are;
\* client.connect() calls start(), which makes the controller, clears the
\* session id and dials the GET
HttpConnect ==
    /\ Made < MaxTransports
    /\ LET t == Made + 1
       IN  /\ facade' = [facade EXCEPT !.client = t, !.transport = t]
           /\ transports' = [k \in TransportIds |->
                  IF k = t
                  THEN [abortController |-> TRUE, sessionId |-> UNDEFINED,
                        get |-> "inflight", observed |-> NoHeader, promise |-> "pending"]
                  ELSE transports[k]]
    /\ deliveredBy' = 0
    /\ erroredBy' = 0
    /\ UNCHANGED posts

\* a start() that fails the connection when the GET gives no event stream
GetResponseStrict(t, ok, h, sse) ==
    /\ transports[t].get = "inflight"
    /\ ~ok => h = NoHeader /\ ~sse
    /\ transports' = [transports EXCEPT ![t] =
          IF ok /\ sse THEN [Observe(GetMcpSessionId(@, h), h) EXCEPT !.get = "open"]
          ELSE [@ EXCEPT !.get = "postonly", !.promise = "rejected"]]
    /\ deliveredBy' = 0
    /\ erroredBy' = 0
    /\ UNCHANGED <<facade, posts>>

\* start(): the GET answers; a status that is not 2xx returns before the
\* session id is looked at, a 2xx answer that is not an event stream returns
\* after it (both leave the transport to its POSTs), an event stream is read
\* in the background
GetResponse(t, ok, h, sse) ==
    /\ transports[t].get = "inflight"
    /\ ~ok => h = NoHeader /\ ~sse
    /\ transports' = [transports EXCEPT ![t] =
          IF ok THEN [Observe(GetMcpSessionId(@, h), h) EXCEPT
                         !.get = IF sse THEN "open" ELSE "postonly"]
          ELSE [@ EXCEPT !.get = "postonly"]]
    /\ deliveredBy' = 0
    /\ erroredBy' = 0
    /\ UNCHANGED <<facade, posts>>

\* start(): fetch throws a TypeError, start() rethrows it and connect()'s
\* catch block reports and rejects
GetNetworkError(t) ==
    /\ transports[t].get = "inflight"
    /\ transports' = [transports EXCEPT ![t].get = "failed", ![t].promise = "rejected"]
    /\ deliveredBy' = 0
    /\ erroredBy' = EmitErrorFor(t)
    /\ UNCHANGED <<facade, posts>>

\* readSseStream / parseEventBlock: a message event on the GET stream
HttpStreamMessage(t) ==
    /\ transports[t].get = "open"
    /\ deliveredBy' = MessageLogger(t)
    /\ erroredBy' = 0
    /\ UNCHANGED <<facade, transports, posts>>

\* readSseStream: the GET stream ends, or reading it fails (failed): the catch
\* block writes to the console and calls nothing, so that the transport is
\* left to its POSTs in both cases
HttpStreamEnd(t, failed) ==
    /\ transports[t].get = "open"
    /\ transports' = [transports EXCEPT ![t].get = "done"]
    /\ deliveredBy' = 0
    /\ erroredBy' = 0
    /\ UNCHANGED <<facade, posts>>

\* await this.client.connect(this.transport) settles once start() has
\* returned: the handshake went through, or it failed and the catch block
\* reports and rejects; the SDK may close the transport on a failed handshake
HandshakeDone(t, ok, closes) ==
    /\ transports[t].promise = "pending"
    /\ transports[t].get \in {"open", "done", "postonly"}
    /\ ok => ~closes
    /\ transports' = [transports EXCEPT ![t] =
          [(IF closes THEN Close(@) ELSE @) EXCEPT
              !.promise = IF ok THEN "resolved" ELSE "rejected"]]
    /\ posts' = IF closes THEN AbortPosts(posts, t) ELSE posts
    /\ deliveredBy' = 0
    /\ erroredBy' = IF ok THEN 0 ELSE EmitErrorFor(t)
    /\ UNCHANGED facade

\* send(message) on transport t: by sendRequest / sendNotification of the
\* facade through its current Client, or by the handshake of the Client that
\* owns t
Send(t, p) ==
    /\ posts[p].state = "none"
    /\ \A q \in PostIds : q < p => posts[q].state # "none"
    /\ \/ facade.client = t
       \/ transports[t].promise = "pending"
             /\ transports[t].get \in {"open", "done", "postonly"}
    /\ posts' = [posts EXCEPT ![p] =
          [transport |-> t, carried |-> CarriedHeader(transports[t]),
           expected |-> transports[t].observed, state |-> "inflight"]]
    /\ deliveredBy' = MessageLogger(t)
    /\ erroredBy' = 0
    /\ UNCHANGED <<facade, transports>>

\* the Content-Type of a POST answer
ContentTypes == {"application/json", "text/event-stream", "text/plain"}

\* send(): the POST answers, or fetch throws (not ok, no header); the session
\* id is taken before response.ok is tested; of a 2xx answer with a message in
\* its body, a JSON body is handed to handleIncoming and an event stream to
\* readSseStream, which both end in processMessage; a body of any other type
\* is not read
PostResponse(p, ok, h, message, contentType) ==
    /\ posts[p].state = "inflight"
    /\ ~ok => ~message
    /\ LET t == posts[p].transport
       IN  /\ transports' = [transports EXCEPT ![t] = Observe(GetMcpSessionId(@, h), h)]
           /\ deliveredBy' = IF message /\ contentType # "text/plain"
                             THEN MessageLogger(t) ELSE 0
           /\ erroredBy' = IF ok THEN 0 ELSE EmitErrorFor(t)
    /\ posts' = [posts EXCEPT ![p].state = IF ok THEN "done" ELSE "failed"]
    /\ UNCHANGED facade

\* send(): the POST answers 2xx with an application/json body that JSON.parse
\* rejects; the catch block around the parse calls onerror, send() returns
PostBadJson(p, h) ==
    /\ posts[p].state = "inflight"
    /\ LET t == posts[p].transport
       IN  /\ transports' = [transports EXCEPT ![t] = Observe(GetMcpSessionId(@, h), h)]
           /\ erroredBy' = EmitErrorFor(t)
    /\ posts' = [posts EXCEPT ![p].state = "done"]
    /\ deliveredBy' = 0
    /\ UNCHANGED facade

\* disconnect(): the current Client and transport are closed and dropped, the
\* handler lists emptied
HttpDisconnect ==
    /\ LET t == facade.transport
       IN  /\ transports' = [k \in TransportIds |->
                  IF k = t THEN [Close(transports[k]) EXCEPT
                                    !.promise = IF @ = "pending" THEN "rejected" ELSE @]
                  ELSE transports[k]]
           /\ posts' = AbortPosts(posts, t)
    /\ facade' = NoFacade
    /\ deliveredBy' = 0
    /\ erroredBy' = 0

HttpNext ==
    \/ HttpRegister /\ UNCHANGED <<clientVars, appVars, urls, sessVars, moreVars>>
    \/ HttpConnect /\ UNCHANGED <<clientVars, appVars, urls, sessVars, moreVars>>
    \/ HttpDisconnect /\ UNCHANGED <<clientVars, appVars, urls, sessVars, moreVars>>
    \/ /\ \E t \in TransportIds, ok \in BOOLEAN, h \in HeaderValues \cup {NoHeader},
              sse \in BOOLEAN : GetResponse(t, ok, h, sse)
       /\ UNCHANGED <<clientVars, appVars, urls, sessVars, moreVars>>
    \/ /\ \E t \in TransportIds : GetNetworkError(t)
       /\ UNCHANGED <<clientVars, appVars, urls, sessVars, moreVars>>
    \/ /\ \E t \in TransportIds : HttpStreamMessage(t)
       /\ UNCHANGED <<clientVars, appVars, urls, sessVars, moreVars>>
    \/ /\ \E t \in TransportIds, failed \in BOOLEAN : HttpStreamEnd(t, failed)
       /\ UNCHANGED <<clientVars, appVars, urls, sessVars, moreVars>>
    \/ /\ \E p \in PostIds, h \in HeaderValues \cup {NoHeader} : PostBadJson(p, h)
       /\ UNCHANGED <<clientVars, appVars, urls, sessVars, moreVars>>
    \/ /\ \E t \in TransportIds, ok \in BOOLEAN, closes \in BOOLEAN : HandshakeDone(t, ok, closes)
       /\ UNCHANGED <<clientVars, appVars, urls, sessVars, moreVars>>
    \/ /\ \E t \in TransportIds, p \in PostIds : Send(t, p)
       /\ UNCHANGED <<clientVars, appVars, urls, sessVars, moreVars>>
    \/ /\ \E p \in PostIds, ok \in BOOLEAN, h \in HeaderValues \cup {NoHeader},
              message \in BOOLEAN :
              \E contentType \in IF message THEN ContentTypes ELSE {"application/json"} :
                 PostResponse(p, ok, h, message, contentType)
       /\ UNCHANGED <<clientVars, appVars, urls, sessVars, moreVars>>

HttpSpec == UrlInit /\ [][HttpNext]_vars

\* --------------------------------------------------- the SSE frame parser
\* The read loop of readSseStream (SseMcpClient, McpClient and
\* CustomStreamableTransport share it). A text is the sequence of its pieces:
\* the characters CR, LF and space, a character x that is none of them, and
\* the field prefixes "event:" and "data:".
CR == "\r"
LF == "\n"
Pieces == {CR, LF, " ", "x", "event:", "data:"}
Chunks == SeqsUpTo(Pieces, MaxChunk) \ {<<>>}

Min(S) == CHOOSE i \in S : \A j \in S : i <= j

\* a separator pattern that knows LF line ends only
SeparatorAtLfOnly(b, i) ==
    IF i + 1 <= Len(b) /\ b[i] = LF /\ b[i + 1] = LF THEN 2 ELSE 0

\* length of the match of /(\n\n|\r\n\r\n|\r\r)/ that starts at index i of b,
\* 0 when none does
SeparatorAt(b, i) ==
    IF i + 1 <= Len(b) /\ b[i] = LF /\ b[i + 1] = LF THEN 2
    ELSE IF i + 3 <= Len(b) /\ b[i] = CR /\ b[i + 1] = LF /\ b[i + 2] = CR /\ b[i + 3] = LF
    THEN 4
    ELSE IF i + 1 <= Len(b) /\ b[i] = CR /\ b[i + 1] = CR THEN 2
    ELSE 0

\* buffer.match(...): the index of the leftmost match, 0 when there is none
Match(b) ==
    LET found == {i \in 1 .. Len(b) : SeparatorAt(b, i) > 0}
    IN  IF found = {} THEN 0 ELSE Min(found)

\* s.trim(), and the test !s.trim()
RECURSIVE TrimLeft(_)
TrimLeft(s) ==
    IF s # <<>> /\ Head(s) \in {" ", CR, LF} THEN TrimLeft(Tail(s)) ELSE s
RECURSIVE Trim(_)
Trim(s) ==
    LET t == TrimLeft(s)
    IN  IF t # <<>> /\ t[Len(t)] \in {" ", CR, LF} THEN Trim(SubSeq(t, 1, Len(t) - 1)) ELSE t

\* eventBlock.split(/\r\n|\r|\n/), on the block b with the line cur begun
RECURSIVE Split(_, _)
Split(b, cur) ==
    IF b = <<>> THEN <<cur>>
    ELSE IF Len(b) >= 2 /\ b[1] = CR /\ b[2] = LF THEN <<cur>> \o Split(SubSeq(b, 3, Len(b)), <<>>)
    ELSE IF b[1] \in {CR, LF} THEN <<cur>> \o Split(Tail(b), <<>>)
    ELSE Split(Tail(b), Append(cur, b[1]))

\* a parser that takes the first event: line of a block
ParseLineFirstEvent(ev, line) ==
    IF line # <<>> /\ Head(line) = "event:"
    THEN IF ev.eventType = <<"message">> THEN [ev EXCEPT !.eventType = Trim(Tail(line))] ELSE ev
    ELSE IF line # <<>> /\ Head(line) = "data:"
    THEN LET d == Tail(line)
         IN  [ev EXCEPT !.data = @ \o (IF d # <<>> /\ Head(d) = " " THEN Tail(d) ELSE d)]
    ELSE ev

\* the body of for (const line of lines) on the event ev built so far
ParseLine(ev, line) ==
    IF line # <<>> /\ Head(line) = "event:"
    THEN [ev EXCEPT !.eventType = Trim(Tail(line))]
    ELSE IF line # <<>> /\ Head(line) = "data:"
    THEN LET d == Tail(line)
         IN  [ev EXCEPT !.data = @ \o (IF d # <<>> /\ Head(d) = " " THEN Tail(d) ELSE d)]
    ELSE ev

\* the for loop: eventType starts as 'message', data as ''
RECURSIVE ParseLines(_, _)
ParseLines(ev, lines) ==
    IF lines = <<>> THEN ev ELSE ParseLines(ParseLine(ev, Head(lines)), Tail(lines))

ParseBlock(b) == ParseLines([eventType |-> <<"message">>, data |-> <<>>], Split(b, <<>>))

\* the inner while (true) loop on the reader r: blocks are cut off the buffer
\* as long as it holds a separator, blank ones are passed over
RECURSIVE Drain(_)
Drain(r) ==
    LET at == Match(r.buffer)
        eventBlock == SubSeq(r.buffer, 1, at - 1)
        rest == SubSeq(r.buffer, at + SeparatorAt(r.buffer, at), Len(r.buffer))
    IN  IF at = 0 THEN r
        ELSE Drain([r EXCEPT !.buffer = rest,
                             !.blocks = Append(@, eventBlock),
                             !.events = IF Trim(eventBlock) = <<>> THEN @
                                        ELSE Append(@, ParseBlock(eventBlock))])

\* a read loop that forgets what the buffer held when a chunk arrives
FeedDropsBuffer(buffer, chunk) == chunk

\* buffer += chunk
Feed(buffer, chunk) == buffer \o chunk

\* one turn of the outer loop: reader.read() hands over a chunk
Read(chunk) ==
    /\ Len(reader.text) + Len(chunk) <= MaxText
    /\ LET b == reader.buffer \o chunk
           at == Match(b)
           cut == at # 0 /\ at <= Len(reader.buffer)
                          /\ at + SeparatorAt(b, at) - 1 > Len(reader.buffer)
       IN  reader' = Drain([reader EXCEPT !.text = @ \o chunk,
                                          !.buffer = Feed(@, chunk),
                                          !.split = @ \/ cut])

ReaderNext ==
    /\ \E chunk \in Chunks : Read(chunk)
    /\ UNCHANGED <<clientVars, appVars, urls, sessVars, httpVars, relay>>

ReaderSpec == UrlInit /\ [][ReaderNext]_vars

\* ------------------------------------------------------- the CORS relay
\* the handler of api/cors: one call of it, from the request to the response
RelayMethods == {"GET", "POST", "OPTIONS"}
\* url.searchParams.get('url'): null when the parameter is missing
TargetUrls == {NULL, "", "not a url", "http://up/mcp"}
\* new URL(targetUrl) does not throw
ValidUrl(u) == u = "http://up/mcp"
\* the request headers looked at, and the headers an upstream response has
RequestNames == {"origin", "accept"}
UpstreamHeaders == [ResponseNames -> {ABSENT, "up"}]
UpstreamStatuses == {200, 404}

unsafeHeaders == {"host", "connection", "origin", "referer", "content-length",
                  "transfer-encoding"}

\* new Response(body, { status, headers: corsHeaders })
Answer(code, body) ==
    [status |-> code, body |-> body,
     headers |-> [n \in ResponseNames |->
                    IF n \in DOMAIN corsHeaders THEN corsHeaders[n] ELSE ABSENT]]

\* response headers that give way to the values the target sent
ResponseHeadersKeepUpstream(up) ==
    [n \in ResponseNames |->
        IF n \in {"content-encoding", "content-length", "transfer-encoding", "connection"}
        THEN ABSENT
        ELSE IF up[n] # ABSENT THEN up[n]
        ELSE IF n \in DOMAIN corsHeaders THEN corsHeaders[n] ELSE ABSENT]

\* responseHeaders: the target's headers, four of them deleted, then every
\* entry of corsHeaders set
ResponseHeaders(up) ==
    [n \in ResponseNames |->
        IF n \in DOMAIN corsHeaders THEN corsHeaders[n]
        ELSE IF n \in {"content-encoding", "content-length", "transfer-encoding",
                       "connection"}
        THEN ABSENT
        ELSE up[n]]

\* handler(req), up to the await of its fetch
Handler(method, targetUrl, headers) ==
    /\ relay.phase = "idle"
    /\ LET r == [relay EXCEPT !.method = method, !.targetUrl = targetUrl,
                              !.headers = headers]
       IN  relay' =
             IF method = "OPTIONS"
             THEN [r EXCEPT !.phase = "answered", !.response = Answer(200, NULL)]
             ELSE IF targetUrl \in {NULL, ""}
             THEN [r EXCEPT !.phase = "answered",
                            !.response = Answer(400, "Missing \"url\" query parameter")]
             ELSE IF ~ValidUrl(targetUrl)
             THEN [r EXCEPT !.phase = "answered",
                            !.response = Answer(400, "Invalid URL provided")]
             ELSE [r EXCEPT !.phase = "fetching", !.headers = headers \ unsafeHeaders,
                            !.fetches = @ + 1]

\* the fetch resolves with the target's response, which is forwarded
Forward(code, up) ==
    /\ relay.phase = "fetching"
    /\ relay' = [relay EXCEPT !.phase = "answered", !.upstream = up,
                              !.response = [status |-> code, body |-> "upstream",
                                            headers |-> ResponseHeaders(up)]]

\* the fetch rejects: the catch block
ProxyError ==
    /\ relay.phase = "fetching"
    /\ relay' = [relay EXCEPT !.phase = "answered",
                              !.response = Answer(500, "Proxy Error")]

RelayNext ==
    \/ /\ \E method \in RelayMethods, targetUrl \in TargetUrls,
              headers \in SUBSET RequestNames : Handler(method, targetUrl, headers)
       /\ UNCHANGED <<clientVars, appVars, urls, sessVars, httpVars, reader>>
    \/ /\ \E code \in UpstreamStatuses, up \in UpstreamHeaders : Forward(code, up)
       /\ UNCHANGED <<clientVars, appVars, urls, sessVars, httpVars, reader>>
    \/ ProxyError /\ UNCHANGED <<clientVars, appVars, urls, sessVars, httpVars, reader>>

RelaySpec == UrlInit /\ [][RelayNext]_vars

\* ------------------------------------------------------------- properties
Registry == client.pendingRequests

\* the registry holds the entry that call n made
HoldsEntryOf(n) == \E k \in Keys(Registry) : Registry[k].call = n

\* what has happened to the promises of the calls
Settlements(rq) ==
    [n \in Ids |-> <<rq[n].promise, rq[n].respSettles, rq[n].timerSettles>>]

\* C1: every promise returned by SseMcpClient.sendRequest eventually settles;
\* no issued request stays pending forever, also when disconnect() is called
\* or an arbitrary message with its id arrives while it is pending
EverySendRequestSettles ==
    \A n \in Ids :
        (clientClass = "SseMcpClient" /\ n \in Calls)
            ~> IsSettled(CallerPromise(reqs[n]))

\* C2: a disconnect() called while requests are pending rejects every one of
\* their promises within the call and leaves the registry empty
DisconnectRejectsAllPending ==
    [][(SoloDisconnect /\ Keys(Registry) # {})
          => /\ client'.pendingRequests = EmptyMap
             /\ \A id \in Keys(Registry) :
                    reqs'[Registry[id].call].promise.state = "rejected"]_vars

\* C3: for every request, completion by a matching response and rejection by
\* its timer are mutually exclusive; the one that comes first removes the
\* registry entry and the other then settles nothing
ResponseAndTimeoutExclusive ==
    \A n \in Calls :
        /\ reqs[n].respSettles + reqs[n].timerSettles <= 1
        /\ (reqs[n].respSettles + reqs[n].timerSettles = 1)
              => reqs[n].id \notin Keys(Registry)

ResponseThenTimerReached ==
    \E n \in Calls :
        reqs[n].respSettles = 1 /\ reqs[n].timer = "fired" /\ reqs[n].timerSettles = 0

\* the step dispatches message m over the stream to a registry entry
DeliversOnStream(m) ==
    /\ stream = "open"
    /\ m.id \in Keys(Registry)
    /\ m.kind \in {"result", "error"}
    /\ StreamMessage(m)

\* C4 as claimed: a result X for a pending request whose validator accepts it
\* resolves the promise with exactly X
ResultResolvesWithExactlyX ==
    [][\A m \in InboundMessages :
          (DeliversOnStream(m) /\ m.kind = "result"
              /\ ~(Registry[m.id].validator /\ ParseThrows(m.val)))
            => reqs'[Registry[m.id].call].promise = Resolved(m.val)]_vars

\* C4 as amended: a result X for pending request i resolves the request's
\* response promise with X when the entry holds no validator and with
\* validator.parse(X) when it holds one that accepts X; an error E rejects it
\* with exactly E; entry i leaves the registry, the other entries and the
\* other requests' promises stay as they are
ResponseSettlesRequest ==
    [][\A m \in InboundMessages :
          (DeliversOnStream(m) /\ ~(m.kind = "result" /\ Registry[m.id].validator
                                       /\ ParseThrows(m.val)))
            => LET entry == Registry[m.id]
                   expected == IF m.kind = "error" THEN Rejected(m.val)
                               ELSE IF entry.validator THEN Resolved(Parse(m.val))
                               ELSE Resolved(m.val)
               IN  /\ reqs'[entry.call].promise = expected
                   /\ Keys(client'.pendingRequests) = Keys(Registry) \ {m.id}
                   /\ \A k \in Keys(client'.pendingRequests) :
                          client'.pendingRequests[k] = Registry[k]
                   /\ \A n \in Ids \ {entry.call} :
                          reqs'[n].promise = reqs[n].promise]_vars

ParsedResultReached ==
    \E n \in Calls :
        /\ reqs[n].promise = Resolved(Parse("Sparse"))
        /\ reqs[n].id \notin Keys(Registry)
        /\ Keys(Registry) # {}

\* C5: dispatching a message whose id the registry does not hold, from the
\* stream or from a POST body, settles no promise and leaves the registry, the
\* id counter, postUrl and sessionId unchanged; a response delivered twice
\* settles its request once
UnknownIdIsNoOp ==
    [][/\ \A m \in InboundMessages :
            (stream = "open" /\ m.id \notin Keys(Registry) /\ StreamMessage(m))
               => (client' = client /\ Settlements(reqs') = Settlements(reqs))
       /\ \A n \in Ids, m \in InboundMessages :
            (reqs[n].post = "inflight" /\ m.id \notin Keys(Registry)
                /\ PostOk(n, NULL, <<m>>))
               => (client' = client /\ Settlements(reqs') = Settlements(reqs))
       /\ \A n \in Ids : reqs'[n].respSettles <= 1]_vars

SecondDeliveryReached ==
    /\ lastDispatch = "ignored"
    /\ Keys(Registry) # {}
    /\ \E n \in Calls : reqs[n].respSettles = 1 /\ reqs[n].seen

\* C6 as claimed: a request that saw no message with its id while its timer
\* ran is rejected with the timeout error, and its entry removed, when the
\* timer fires
UnansweredRequestTimesOut ==
    \A n \in Calls :
        (reqs[n].timer = "fired" /\ ~reqs[n].seen)
            => /\ reqs[n].promise = Rejected(TIMEOUT_ERROR)
               /\ reqs[n].id \notin Keys(Registry)

\* C6 as amended: when the timer of a request fires and the registry still
\* holds the request's entry, the promise is rejected with the timeout error
\* and the entry removed; when it no longer holds it (a response, a failed
\* POST or a disconnect() removed it), the timer changes nothing
TimerRejectsRegisteredRequest ==
    [][\A n \in Ids :
          TimerFire(n)
            => IF reqs[n].id \in Keys(Registry)
               THEN /\ reqs'[n].promise = Rejected(TIMEOUT_ERROR)
                    /\ reqs'[n].timerSettles = 1
                    /\ Keys(client'.pendingRequests) = Keys(Registry) \ {reqs[n].id}
               ELSE /\ client' = client
                    /\ Settlements(reqs') = Settlements(reqs)]_vars

TimedOutReached ==
    \E n \in Calls :
        /\ reqs[n].timer = "fired"
        /\ reqs[n].post = "ok"
        /\ reqs[n].promise = Rejected(TIMEOUT_ERROR)

\* what the timer of call n must leave alone: the other registry entries,
\* the id counter, postUrl, sessionId, the handler lists and the promises of
\* the other calls
TimerFrame(n) ==
    /\ \A k \in Keys(Registry) \ {reqs[n].id} :
          k \in Keys(client'.pendingRequests) /\ client'.pendingRequests[k] = Registry[k]
    /\ client'.requestCounter = client.requestCounter
    /\ client'.postUrl = client.postUrl
    /\ client'.sessionId = client.sessionId
    /\ client'.messageHandlers = client.messageHandlers
    /\ client'.errorHandlers = client.errorHandlers
    /\ \A k \in Ids \ {n} : reqs'[k] = reqs[k]

\* C7 as claimed: when the timer of a request fires, every other registry
\* entry, the id counter, postUrl, sessionId, the handler lists and App's
\* connection status are unchanged
TimeoutLeavesStatus ==
    [][\A n \in Ids : TimerFire(n) => (TimerFrame(n) /\ status' = status)]_vars

\* C7 as amended: when the timer of a request fires, every other registry
\* entry, the id counter, postUrl, sessionId, the handler lists and the other
\* requests' promises are unchanged; App's connection status is unchanged
\* too unless the timer rejects the promise handleConnect awaits (its
\* initialize request), which makes handleConnect set the status to ERROR
TimeoutAffectsOnlyItsRequest ==
    [][\A n \in Ids :
          TimerFire(n)
            => /\ TimerFrame(n)
               /\ status' = IF /\ awaits[n] = "handleConnect"
                               /\ reqs[n].post = "ok"
                               /\ reqs[n].id \in Keys(Registry)
                            THEN "ERROR" ELSE status]_vars

OtherRequestSurvivesTimeout ==
    \E a, b \in Calls :
        /\ a # b
        /\ reqs[a].promise = Rejected(TIMEOUT_ERROR)
        /\ awaits[b] = "fetch"
        /\ HoldsEntryOf(b)
        /\ status = "CONNECTED"

\* C8: the ids one client instance puts on the wire are strictly increasing,
\* hence pairwise distinct, whatever connect, disconnect, timeout, response
\* and failed send comes in between; every registry entry sits under the id
\* of the call that made it
IdsStrictlyIncreasing ==
    /\ \A a, b \in Calls : a < b => reqs[a].id < reqs[b].id
    /\ \A k \in Keys(Registry) : Registry[k].call \in Calls /\ reqs[Registry[k].call].id = k

\* call n lost its registry entry to a disconnect(): nothing else has touched
\* it (its POST and its timer are outstanding, no message carried its id), yet
\* the registry does not hold its id
DroppedByDisconnect(n) ==
    /\ n \in Calls
    /\ reqs[n].post = "inflight" /\ reqs[n].timer = "armed" /\ ~reqs[n].seen
    /\ reqs[n].id \notin Keys(Registry)

\* call n is the first sendRequest after a connect() that followed a
\* disconnect(): the call before it was dropped by a disconnect() that call n
\* came after, since its entry is there; and sendRequest throws while postUrl
\* is null, so a connect() came in between
FirstAfterReconnect(n) ==
    n \in Calls /\ n > 0 /\ DroppedByDisconnect(n - 1) /\ HoldsEntryOf(n)

IdsAcrossReconnectReached ==
    /\ FirstAfterReconnect(1)
    /\ reqs[1].post = "ok"
    /\ reqs[0].id < reqs[1].id

ConnectResolvesOnceAtEndpoint ==
    [][SseMode'
         => /\ resolveCalls' <= 1
            /\ (connectPromise.state # "resolved" /\ connectPromise'.state = "resolved")
                  => /\ stream = "open"
                     /\ endpointsSeen = 0 /\ endpointsSeen' = 1
                     /\ client'.postUrl # NULL
            /\ (stream' = "open" /\ endpointsSeen' = 0)
                  => connectPromise'.state # "resolved"
            /\ (stream' = "open" /\ endpointsSeen' > 0)
                  => connectPromise'.state # "pending"]_vars

SecondEndpointReached ==
    /\ clientClass = "SseMcpClient"
    /\ stream = "open"
    /\ endpointsSeen = 2
    /\ resolveCalls = 1
    /\ connectPromise = Resolved(NULL)

\* C11: whenever App's connection status is CONNECTED the client's POST
\* target postUrl is set, whatever handleConnect, handleDisconnect, stream
\* events, timers and POST completions have come before
ConnectedHasPostUrl ==
    status = "CONNECTED" => client.postUrl # NULL

ConnectedAfterStreamEndReached ==
    /\ status = "CONNECTED"
    /\ client.postUrl # NULL
    /\ stream = "ended"
    /\ \E n \in Calls : reqs[n].post = "ok" /\ awaits[n] = "none"

\* the client is between a disconnect() (or its construction) and the next
\* connect(): only then is abortController null
Disconnected == ~client.abortController

\* C15: from the return of disconnect() to the next connect() the client's
\* postUrl and sessionId are both unset, whatever late POST responses and
\* stream events of the torn-down connection arrive in between
SessionStateUnsetWhileDisconnected ==
    Disconnected => (client.postUrl = NULL /\ client.sessionId = NULL)

\* C17: disconnect() can be called in every state, and the state it leaves is
\* one a second disconnect() leaves as it is: no abort controller and no
\* stream, postUrl and sessionId unset, an empty registry and, for
\* SseMcpClient, empty handler lists
DisconnectIdempotent ==
    /\ [](ENABLED SoloDisconnect)
    /\ [][SoloDisconnect
            => /\ DisconnectFields(clientClass, client') = client'
               /\ DisconnectPromises(client'.pendingRequests, reqs') = reqs'
               /\ AbortStream(client', stream') = stream'
               /\ AbortConnectPromise(client', stream', connectPromise') = connectPromise'
               /\ ~client'.abortController
               /\ stream' \in {"none", "ended"}
               /\ client'.postUrl = NULL
               /\ client'.sessionId = NULL
               /\ client'.pendingRequests = EmptyMap
               /\ clientClass = "SseMcpClient"
                     => (client'.messageHandlers = <<>> /\ client'.errorHandlers = <<>>)]_vars

DisconnectedFromSessionReached ==
    /\ clientClass = "SseMcpClient"
    /\ Disconnected
    /\ connectPromise.state = "resolved"
    /\ stream = "none"
    /\ client.postUrl = NULL /\ client.sessionId = NULL
    /\ DroppedByDisconnect(0)

\* C18: disconnect() cancels the GET stream and every POST in flight: once it
\* has returned, no POST started before it completes normally and acts on the
\* client
DisconnectCancelsPosts ==
    [][Disconnected
          => \A n \in Ids : ~(reqs[n].post = "inflight" /\ reqs'[n].post = "ok")]_vars

\* App's messageHandler is in the list that messageHandlers.forEach walks, and
\* its errorHandler in the list that emitError walks
LogHandlerRegistered ==
    \E i \in DOMAIN client.messageHandlers : client.messageHandlers[i] = "messageHandler"

ErrorHandlerRegistered ==
    \E i \in DOMAIN client.errorHandlers : client.errorHandlers[i] = "errorHandler"

\* C20: during a connection made by handleConnect every message the client
\* sends (a request, a notification) and every inbound message it dispatches
\* is handed to the messageHandler App registered, and every transport error
\* to its errorHandler
MessagesReachLogHandler ==
    [][/\ (\/ sendCalls' > sendCalls
           \/ notifying' > notifying
           \/ (stream = "open" /\ \E m \in InboundMessages : StreamMessage(m)))
          => LogHandlerRegistered
       /\ (stream = "open" /\ (StreamError \/ StreamBadEndpoint))
          => ErrorHandlerRegistered]_vars

\* what the caller's configuration asks for: the prefix in front of the
\* target when the proxy is enabled, the target itself when it is not
Proxied(cfg, target) == IF cfg.enabled THEN <<cfg.prefix>> \o target ELSE target

\* C12: an endpoint event with data v stores as postUrl the URL that v
\* resolves to against the caller's own URL, with the prefix in front exactly
\* when the proxy is enabled; for base http://host/sse and v = /messages?x=1
\* that is P + http://host/messages?x=1, or http://host/messages?x=1 without
\* proxy
EndpointResolvedAgainstOriginal ==
    [][\A v \in EndpointValues :
          (urls.class \in {"SseMcpClient", "McpClient"} /\ urls.getUrl # <<>> /\ UrlEndpoint(v))
            => /\ urls'.postUrl = Proxied(urls.proxyConfig, ResolveUrl(v, urls.raw))
               /\ (urls.raw = <<"http://host", "/sse">> /\ v = <<"/messages?x=1">>)
                     => urls'.postUrl =
                          Proxied(urls.proxyConfig, <<"http://host", "/messages?x=1">>)]_vars

ProxiedEndpointReached ==
    /\ urls.proxyConfig.enabled
    /\ urls.raw = <<"http://host", "/sse">>
    /\ urls.postUrl = <<urls.proxyConfig.prefix, "http://host", "/messages?x=1">>

\* the number of proxy prefixes in a URL
PrefixCount(url) == Cardinality({i \in DOMAIN url : url[i] \in Prefixes})

\* C13: every URL a client dials (the GET of connect, the POST target of the
\* Streamable HTTP clients, the POST target an SSE client derives from the
\* endpoint event) is the target as it is when the proxy is disabled and the
\* prefix followed by the target when it is enabled: the prefix is in it once
\* when enabled, and not at all when disabled
PrefixAppliedExactlyOnce ==
    /\ urls.getUrl # <<>> => urls.getUrl = Proxied(urls.proxyConfig, urls.raw)
    /\ (urls.posted # <<>> /\ urls.class = "StreamableHttpMcpClient")
          => urls.posted = Proxied(urls.proxyConfig, urls.raw)
    /\ \A d \in {urls.getUrl, urls.postUrl, urls.posted} :
          d # <<>> => /\ PrefixCount(d) = IF urls.proxyConfig.enabled THEN 1 ELSE 0
                      /\ urls.proxyConfig.enabled => Head(d) = urls.proxyConfig.prefix
                      /\ ~urls.proxyConfig.enabled => Head(d) \in Origins

DialledThroughProxyReached ==
    /\ urls.class = "SseMcpClient"
    /\ urls.proxyConfig.enabled
    /\ urls.getUrl = <<urls.proxyConfig.prefix>> \o urls.raw
    /\ urls.posted # <<>>
    /\ PrefixCount(urls.posted) = 1

\* C16: a sendRequest or sendNotification call made while postUrl is unset
\* throws the not-connected error and changes nothing: the counter, the
\* registry, the calls and their timers, the POSTs in flight, the stream and
\* the session fields are what they were, no handler is handed a message and
\* no HTTP request is issued.
RejectedCallChangesNothing ==
    [][(lastCall'.calls # lastCall.calls /\ client.postUrl = NULL) =>
          /\ lastCall'.thrown = NOT_CONNECTED
          /\ lastCall'.emitted = 0
          /\ lastCall'.fetches = 0
          /\ UNCHANGED <<client, reqs, sendCalls, notePosts, stream, connectPromise>>]_vars

\* a call is rejected after a disconnect(), once ids have been issued and a
\* handler is registered
RejectedAfterDisconnectReached ==
    /\ lastCall.thrown = NOT_CONNECTED
    /\ client.postUrl = NULL
    /\ sendCalls > 0
    /\ ~client.abortController

\* C14: every send carries the Mcp-Session-Id value most recently observed
\* on a response of its connection (none before any was observed), and the
\* stored session id of a connection, once set, stays set.
SendsCarryLatestSession ==
    /\ \A p \in PostIds : posts[p].state # "none" => posts[p].carried = posts[p].expected
    /\ \A t \in TransportIds :
          transports[t].observed # NoHeader => Truthy(transports[t].sessionId)

\* C19: at most one connection of a facade is live: a transport whose
\* controller is live, or that hands a message to the handlers, is the
\* facade's current one.
OneLiveConnection ==
    /\ \A t \in TransportIds : transports[t].abortController => facade.transport = t
    /\ deliveredBy # 0 => deliveredBy = facade.transport

\* C22: however the text read so far was cut into chunks, the blocks cut
\* off, the events extracted and the text left in the buffer are those of a
\* read loop that is handed the whole text as one chunk.
ChunkBoundaryIndependent ==
    LET whole == Drain([NoReader EXCEPT !.text = reader.text, !.buffer = reader.text])
    IN  /\ reader.events = whole.events
        /\ reader.blocks = whole.blocks
        /\ reader.buffer = whole.buffer

\* a CRLF CRLF separator arrived in two chunks and the event before it was extracted
SplitSeparatorReached ==
    /\ reader.split
    /\ reader.events # <<>>
    /\ \E i \in 1 .. Len(reader.text) : SeparatorAt(reader.text, i) = 4

\* the lines of a block with a given field prefix, and a block of whitespace
FieldLines(lines, prefix) ==
    {i \in 1 .. Len(lines) : lines[i] # <<>> /\ lines[i][1] = prefix}
IsBlank(b) == \A i \in 1 .. Len(b) : b[i] \in {" ", CR, LF}

\* the values of the data: lines from line i on, each without one leading
\* space, put end to end
RECURSIVE DataFrom(_, _)
DataFrom(lines, i) ==
    IF i > Len(lines) THEN <<>>
    ELSE IF i \in FieldLines(lines, "data:")
    THEN LET v == Tail(lines[i])
         IN  (IF v # <<>> /\ v[1] = " " THEN Tail(v) ELSE v) \o DataFrom(lines, i + 1)
    ELSE DataFrom(lines, i + 1)

\* the event a block stands for
EventOf(b) ==
    LET lines == Split(b, <<>>)
        evs == FieldLines(lines, "event:")
        last == CHOOSE i \in evs : \A j \in evs : j <= i
    IN  [eventType |-> IF evs = {} THEN <<"message">> ELSE Trim(Tail(lines[last])),
         data |-> DataFrom(lines, 1)]

RECURSIVE EventsOf(_)
EventsOf(blocks) ==
    IF blocks = <<>> THEN <<>>
    ELSE (IF IsBlank(Head(blocks)) THEN <<>> ELSE <<EventOf(Head(blocks))>>)
            \o EventsOf(Tail(blocks))

\* C29: the events extracted are, block by block and leaving out the blocks of
\* whitespace, the trimmed value of the block's last event: line ("message"
\* when it has none) with the values of its data: lines, each without one
\* leading space, put end to end.
BlockYieldsLastEventAndJoinedData == reader.events = EventsOf(reader.blocks)

\* a block with two event: lines has been parsed
TwoEventLinesReached ==
    /\ reader.events # <<>>
    /\ \E k \in 1 .. Len(reader.blocks) :
          Cardinality(FieldLines(Split(reader.blocks[k], <<>>), "event:")) = 2

\* the text t, whose line ends are LF, with every line end written as ending
RECURSIVE Recode(_, _)
Recode(t, ending) ==
    IF t = <<>> THEN <<>>
    ELSE (IF Head(t) = LF THEN ending ELSE <<Head(t)>>) \o Recode(Tail(t), ending)

\* C23: a stream whose line ends are LF yields the same events when its line
\* ends are written CRLF or CR instead.
LineEndingIndependent ==
    (\A i \in 1 .. Len(reader.text) : reader.text[i] # CR) =>
        \A ending \in {<<CR, LF>>, <<CR>>} :
           LET t == Recode(reader.text, ending)
           IN  Drain([NoReader EXCEPT !.text = t, !.buffer = t]).events = reader.events

\* an LF stream of two blocks, the second of which has yielded an event with data
TwoLfBlocksReached ==
    /\ \A i \in 1 .. Len(reader.text) : reader.text[i] # CR
    /\ Len(reader.blocks) = 2
    /\ reader.events # <<>>
    /\ reader.events[Len(reader.events)].data # <<>>

\* C30: a message frame whose data is not JSON leaves postUrl, the session
\* fields, the registry, the calls and the connect() promise as they were and
\* the stream open, so that the frames after it are read: a message and an
\* endpoint frame can be processed next.
BadJsonFrameIsSkipped ==
    /\ [][lastDispatch' = "skipped" =>
             /\ stream' = "open"
             /\ UNCHANGED <<client, reqs, sendCalls, connectPromise, resolved, resolveCalls>>]_vars
    /\ [](lastDispatch = "skipped" => ENABLED SoloStreamMessage /\ ENABLED SoloStreamEndpoint)

\* a frame was skipped while connect() was still waiting for the endpoint event
BadJsonBeforeEndpointReached ==
    /\ lastDispatch = "skipped"
    /\ connectPromise.state = "pending"

\* C24: a GET that answers with a status that is not 2xx, or with something
\* that is not an event stream, leaves the connect() promise and the
\* controller of its transport as they were; on such a transport the facade's
\* current client can send, and a POST in flight can be answered with a
\* message that is handed to the message handlers.
PostOnlyModeWorks ==
    /\ [][\A t \in TransportIds :
             (transports[t].get = "inflight" /\ transports'[t].get = "postonly") =>
                 /\ transports'[t].promise = transports[t].promise
                 /\ transports'[t].abortController = transports[t].abortController]_vars
    /\ [](\A t \in TransportIds, p \in PostIds :
             (/\ transports[t].get = "postonly"
              /\ facade.client = t
              /\ posts[p].state = "none"
              /\ \A q \in PostIds : q < p => posts[q].state # "none")
             => ENABLED Send(t, p))
    /\ [](\A p \in PostIds :
             (/\ posts[p].state = "inflight"
              /\ transports[posts[p].transport].get = "postonly"
              /\ facade.messageHandlers > 0)
             => ENABLED (/\ PostResponse(p, TRUE, NoHeader, TRUE, "application/json")
                         /\ deliveredBy' = posts[p].transport))

\* connect() resolved on a transport whose GET gave no stream, and a POST of
\* it was answered
PostOnlyAnsweredReached ==
    \E p \in PostIds :
        /\ posts[p].state = "done"
        /\ transports[posts[p].transport].get = "postonly"
        /\ transports[posts[p].transport].promise = "resolved"

\* C25: a connect attempt whose initialize POST fails never shows the status
\* CONNECTED: when the POST of handleConnect's initialize request fails, the
\* status is not CONNECTED
FailedAttemptNeverConnected ==
    [][\A n \in Ids :
          (/\ awaits[n] = "handleConnect"
           /\ reqs[n].post = "inflight"
           /\ reqs'[n].post = "failed")
          => status # "CONNECTED"]_vars

\* C21: no list request goes on the wire before the handshake of the
\* connection it is sent on: a step that issues tools/list, resources/list and
\* prompts/list does not start while the initialize request that handleConnect
\* awaits is still registered as unanswered
ListsFollowHandshake ==
    [][(\E n \in Ids : sendCalls <= n /\ n < sendCalls' /\ awaits'[n] = "fetch")
          => ~\E m \in Ids : awaits[m] = "handleConnect" /\ HoldsEntryOf(m)]_vars

\* C26: a POST answer whose body is not valid JSON, on the transport of an
\* established connection, is no more than a failure of its request: the
\* transport keeps its controller and no error handler is called, so that
\* App's errorHandler does not set the status to ERROR
ProtocolFailureLeavesConnection ==
    [][\A p \in PostIds :
          LET t == posts[p].transport
          IN  (/\ posts[p].state = "inflight"
               /\ facade.transport = t
               /\ transports[t].promise = "resolved"
               /\ \E h \in HeaderValues \cup {NoHeader} : PostBadJson(p, h))
              => /\ transports'[t].abortController = transports[t].abortController
                 /\ erroredBy' = 0]_vars

\* C27: a read failure of the GET stream of an established connection is
\* handed to the error handlers, of which App's errorHandler sets the status
\* to ERROR
StreamFailureReachesErrorHandlers ==
    [][\A t \in TransportIds :
          (/\ facade.transport = t
           /\ facade.errorHandlers > 0
           /\ transports[t].promise = "resolved"
           /\ HttpStreamEnd(t, TRUE))
          => erroredBy' = t]_vars

\* C28: every response of the relay carries the four headers of corsHeaders
\* with the relay's values, whatever the target sent, and an OPTIONS request
\* is answered 200 without a fetch
RelayAnswersCarryCorsHeaders ==
    relay.phase = "answered" =>
        /\ \A n \in DOMAIN corsHeaders : relay.response.headers[n] = corsHeaders[n]
        /\ relay.method = "OPTIONS" => relay.response.status = 200 /\ relay.fetches = 0

\* a response forwarded from a target that sent its own values for all four
\* headers
UpstreamCorsOverriddenReached ==
    /\ relay.phase = "answered"
    /\ relay.response.body = "upstream"
    /\ relay.response.status = 404
    /\ \A n \in DOMAIN corsHeaders : relay.upstream[n] = "up"

\* C31: a 2xx POST answer of another content type than JSON or event stream,
\* with a message in its body, is read as well: the message is handed to the
\* message handlers by the transport that sent the POST
OtherContentIsDispatched ==
    [][\A p \in PostIds :
          (/\ posts[p].state = "inflight"
           /\ facade.transport = posts[p].transport
           /\ facade.messageHandlers > 0
           /\ \E h \in HeaderValues \cup {NoHeader} :
                 PostResponse(p, TRUE, h, TRUE, "text/plain"))
          => deliveredBy' = posts[p].transport]_vars

\* C32: a result for a pending request whose entry holds a validator rejects
\* the request's promise with the validation error when the validator refuses
\* it and resolves it with the validator's output when it accepts; either way
\* the entry leaves the registry
ValidatorDecidesOutcome ==
    [][\A m \in InboundMessages :
          (DeliversOnStream(m) /\ m.kind = "result" /\ Registry[m.id].validator)
            => /\ reqs'[Registry[m.id].call].promise =
                      IF m.val = "Bad" THEN Rejected(ZOD_ERROR)
                      ELSE Resolved(Parse(m.val))
               /\ m.id \notin Keys(client'.pendingRequests)]_vars

\* a request was rejected by its validator while another one is pending
ValidationRejectedReached ==
    \E n \in Calls :
        /\ reqs[n].promise = Rejected(ZOD_ERROR)
        /\ reqs[n].respSettles = 1
        /\ reqs[n].id \notin Keys(Registry)
        /\ Keys(Registry) # {}

\* C33: a server request or notification (a message with a method) leaves the
\* registry and the requests' promises as they are, also when its id is that
\* of a pending request
MethodMessageLeavesRegistry ==
    [][\A m \in InboundMessages :
          (/\ stream = "open"
           /\ m.kind = "method"
           /\ m.id \in Keys(Registry)
           /\ StreamMessage(m))
          => /\ client'.pendingRequests = Registry
             /\ \A n \in Ids : reqs'[n].promise = reqs[n].promise]_vars

\* C34: connect() does not stay pending once its stream is over: when the
\* stream of the current connect() has ended or failed, the promise connect()
\* returned is settled
ConnectSettledWhenStreamOver ==
    (clientClass = "SseMcpClient" /\ stream = "ended") => connectPromise.state # "pending"

\* C35: a session id is never carried across connections.  A POST that
\* sendRequest started on an earlier connection (its registry entry went with
\* the disconnect()) and that completes while a later connect() is in force
\* leaves the sessionId of the new connection as it is
SessionIdStaysWithinConnection ==
    [][\A n \in Ids : \A sess \in SessionIds :
          (/\ DroppedByDisconnect(n)
           /\ client.abortController
           /\ PostOk(n, sess, <<>>))
          => client'.sessionId = client.sessionId]_vars


\* C36: once handleDisconnect has set the status to DISCONNECTED, only the
\* next handleConnect changes it: no late completion of the earlier
\* handleConnect and no late error callback sets CONNECTED or ERROR
DisconnectedUntilNextConnect ==
    [][(status = "DISCONNECTED" /\ status' # "DISCONNECTED")
          => (status' = "CONNECTING" /\ connectCalls' = connectCalls + 1)]_vars


\* C37: the outcome the caller of SseMcpClient.sendRequest observes agrees
\* with the registry's: when a matching result was dispatched while the
\* request was pending, the caller's promise is resolved with that result
\* once the POST has returned, whatever the POST returned
CallerSeesDispatchedResult ==
    \A n \in Ids :
        (/\ clientClass = "SseMcpClient"
         /\ reqs[n].promise.state = "resolved"
         /\ reqs[n].post \in {"ok", "failed"})
        => CallerPromise(reqs[n]) = reqs[n].promise


\* C38: when the POST of a sendRequest fails, sendRequest rejects with that
\* error and the registry no longer holds the request's id; every other
\* registry entry and the id counter are as they were, so the id is not
\* handed out again; and the request's timer, when it fires later, changes
\* neither the registry nor any promise
PostFailureCleansUp ==
    /\ [][\A n \in Ids : \A sess \in SessionIds \cup {NULL} :
              PostFailed(n, sess)
              => /\ CallerPromise(reqs'[n]) = Rejected(HTTP_ERROR)
                 /\ reqs[n].id \notin Keys(client'.pendingRequests)
                 /\ \A k \in Keys(Registry) \ {reqs[n].id} :
                       /\ k \in Keys(client'.pendingRequests)
                       /\ client'.pendingRequests[k] = Registry[k]
                 /\ client'.requestCounter = client.requestCounter
                 /\ \A k \in Ids : reqs'[k].promise = reqs[k].promise]_vars
    /\ [][\A n \in Ids :
              (reqs[n].post = "failed" /\ TimerFire(n))
              => /\ client' = client
                 /\ \A k \in Ids : reqs'[k].promise = reqs[k].promise]_vars
    /\ [](\A n \in Calls :
              reqs[n].post = "failed"
              => /\ reqs[n].id < client.requestCounter
                 /\ \A k \in Calls \ {n} : reqs[k].id # reqs[n].id)

\* the POST of a call failed and its timer has fired since without rejecting
\* anything, while a call issued after it still holds its registry entry
LateTimerAfterPostFailureReached ==
    \E n \in Calls : \E k \in Calls :
        /\ reqs[n].post = "failed"
        /\ reqs[n].timer = "fired" /\ reqs[n].timerSettles = 0
        /\ reqs[n].promise = PENDING
        /\ reqs[n].id < reqs[k].id
        /\ HoldsEntryOf(k)


\* C39: a timeout timer acts only on the request it was created with.  Every
\* registry entry is filed under the id of the call that made it, and the
\* timer of call n removes no entry made by another call and settles no
\* promise of another call, also when call n belongs to an earlier connection
\* and the other calls were issued after a reconnect
TimerActsOnOwnRequest ==
    /\ [](\A k \in Keys(Registry) : reqs[Registry[k].call].id = k)
    /\ [][\A n \in Ids :
              TimerFire(n)
              => /\ \A k \in Keys(Registry) :
                       Registry[k].call # n
                       => /\ k \in Keys(client'.pendingRequests)
                          /\ client'.pendingRequests[k] = Registry[k]
                 /\ \A m \in Ids \ {n} : reqs'[m].promise = reqs[m].promise]_vars

\* the timer of a call that a disconnect() dropped has fired and rejected
\* nothing, and a call issued after the reconnect holds its registry entry
\* with its own timer running
StaleTimerAfterReconnectReached ==
    \E n \in Calls : \E k \in Calls :
        /\ n < k
        /\ reqs[n].timer = "fired" /\ reqs[n].timerSettles = 0
        /\ reqs[n].post = "inflight" /\ ~reqs[n].seen
        /\ reqs[n].promise = PENDING
        /\ reqs[n].id \notin Keys(Registry)
        /\ HoldsEntryOf(k) /\ reqs[k].timer = "armed"
        /\ client.postUrl # NULL

====
